---- MODULE Spec2Model ----
(***************************************************************************)
(* SEOOptimizer of src/src/seo_optimizer.py: the text analyzer             *)
(* (analyze_seo and its helpers) and the scorer (_calculate_seo_score).    *)
(*                                                                         *)
(* Strings are sequences of one-character strings.  Python floats are      *)
(* exact rationals [n, d] with d > 0; a record with d = 0 stands for the   *)
(* ZeroDivisionError a true division by zero raises.  A dict is a function *)
(* whose DOMAIN is the set of keys it holds, except keyword_density, which *)
(* is the sequence of its items in insertion order.                        *)
(***************************************************************************)
EXTENDS Integers, Sequences, FiniteSets, TLC

VARIABLES pc, optimizer, text, keywords, analysis, result, syllables, suggestions,
          config, log, threads, heap, random, batch, gen, invoked

vars == <<pc, optimizer, text, keywords, analysis, result, syllables, suggestions,
          config, log, threads, heap, random, batch, gen, invoked>>

\* the argument of the constructor, the record of the calls made, the calls
\* in progress on threads and the caller's dicts, which a single call of
\* the analyzer, the scorer or the suggestion generator leaves alone
others == <<config, log, threads, heap, random, batch, gen, invoked>>

\* the generator behind the module random, the call of generate_batch, the
\* article generator, and the call of one of its methods, of _generate_slug
\* or of a method of the HTML converter
processor == <<random, batch, gen, invoked>>

\* no random number drawn, no batch asked for, no generator constructed, no
\* method called
ProcessorIdle ==
    /\ random = <<>>
    /\ batch = <<>>
    /\ gen = <<>>
    /\ invoked = <<>>

\* config: None, or a dict
NoneConfig == [none |-> TRUE, dict |-> <<>>]

DictConfig(dict) == [none |-> FALSE, dict |-> dict]

OthersIdle ==
    /\ config = DictConfig(<<>>)
    /\ log = <<>>
    /\ threads = <<>>
    /\ heap = <<>>
    /\ ProcessorIdle

(***************************************************************************)
(* Bounds of the model.                                                    *)
(***************************************************************************)
MaxKeywords == 2
MaxMissing == 2

(***************************************************************************)
(* Rationals standing for Python floats.                                   *)
(***************************************************************************)
Rat(n, d) == [n |-> n, d |-> d]

Leq(a, b) == a.n * b.d <= b.n * a.d

Less(a, b) == a.n * b.d < b.n * a.d

Raised(r) == r.d = 0

Min(a, b) == IF a <= b THEN a ELSE b

Max(a, b) == IF a >= b THEN a ELSE b

\* dict.get(key, default)
Get(dict, key, default) == IF key \in DOMAIN dict THEN dict[key] ELSE default

Restrict(dict, keys) == [k \in keys |-> dict[k]]

(***************************************************************************)
(* _calculate_seo_score, signal by signal.                                 *)
(***************************************************************************)
WordCountPointsPenalty(an, self) ==
    IF an.word_count >= self.min_word_count
    THEN IF an.word_count <= self.max_word_count THEN 20 ELSE 10
    ELSE -5

WordCountPointsLongFull(an, self) ==
    IF an.word_count >= self.min_word_count THEN 20 ELSE 5

WordCountPoints(an, self) ==
    IF an.word_count >= self.min_word_count
    THEN IF an.word_count <= self.max_word_count THEN 20 ELSE 10
    ELSE 5

KeywordDensityPoints(an) ==
    LET kd == an.keyword_density
        ideal_density_achieved ==
            \E i \in 1..Len(kd) :
                Leq(Rat(15, 10), kd[i].density) /\ Leq(kd[i].density, Rat(3, 1))
    IN  IF ideal_density_achieved THEN 20
        ELSE IF kd # <<>> THEN 10
        ELSE 0

HeadingPointsHierarchyDefaultFalse(an) ==
    LET heading_structure == an.heading_structure
    IN  (IF Get(heading_structure, "has_h1", FALSE) THEN 5 ELSE 0)
      + (IF Get(heading_structure, "h2_count", 0) >= 3 THEN 5 ELSE 0)
      + (IF Get(heading_structure, "proper_hierarchy", FALSE) THEN 5 ELSE 0)

HeadingPoints(an) ==
    LET heading_structure == an.heading_structure
    IN  (IF Get(heading_structure, "has_h1", FALSE) THEN 5 ELSE 0)
      + (IF Get(heading_structure, "h2_count", 0) >= 3 THEN 5 ELSE 0)
      + (IF Get(heading_structure, "proper_hierarchy", TRUE) THEN 5 ELSE 0)

ReadabilityPoints(an) ==
    LET flesch_score == Get(an.readability, "flesch_score", Rat(0, 1))
    IN  IF Leq(Rat(60, 1), flesch_score) THEN 20
        ELSE IF Leq(Rat(40, 1), flesch_score) THEN 10
        ELSE 0

\* the points given to every article
MetaPointsAlways(an) == 10

MetaPointsInverted(an) == IF Get(an, "has_meta_description", FALSE) THEN 0 ELSE 10

MetaPoints(an) == IF Get(an, "has_meta_description", FALSE) THEN 10 ELSE 0

SentenceLengthPoints(an) ==
    LET avg_sentence_length == Get(an, "average_sentence_length", Rat(20, 1))
    IN  IF Leq(Rat(15, 1), avg_sentence_length) /\ Leq(avg_sentence_length, Rat(20, 1))
        THEN 15
        ELSE IF Leq(Rat(10, 1), avg_sentence_length)
                /\ Leq(avg_sentence_length, Rat(25, 1))
        THEN 8
        ELSE 0

\* analysis[key] of a key the dict lacks raises KeyError
SubscriptedKeys == {"word_count", "keyword_density", "heading_structure", "readability"}

_calculate_seo_score(an, self) ==
    IF ~(SubscriptedKeys \subseteq DOMAIN an)
    THEN [exc |-> "KeyError", ret |-> 0]
    ELSE [exc |-> "",
          ret |-> Min(WordCountPoints(an, self) + KeywordDensityPoints(an)
                      + HeadingPoints(an) + ReadabilityPoints(an)
                      + MetaPoints(an) + SentenceLengthPoints(an), 100)]

(***************************************************************************)
(* Inputs of the scorer: analyses around every threshold of the formula.   *)
(***************************************************************************)
\* the defaults of __init__, and a configuration whose minimum exceeds its maximum
DefaultConfig == [min_word_count |-> 800, max_word_count |-> 2500]

Configs == {DefaultConfig, [min_word_count |-> 2500, max_word_count |-> 800]}

WordCounts == {799, 800, 2500, 2501}

H2Counts == {0, 2, 3}

\* densities in hundredths of a percent point, as round(density, 2) leaves them
DensityValues == {Rat(149, 100), Rat(150, 100), Rat(300, 100), Rat(301, 100)}

KeywordNames == {<<"k">>, <<"s">>, <<"e">>, <<"o">>}

KeywordName(i) ==
    CASE i = 1 -> <<"k">> [] i = 2 -> <<"s">> [] i = 3 -> <<"e">> [] OTHER -> <<"o">>

DensityMaps ==
    UNION {{[i \in 1..n |-> [keyword |-> KeywordName(i), count |-> 1, density |-> f[i]]] :
               f \in [1..n -> DensityValues]} : n \in 0..MaxKeywords}

FleschValues == {Rat(3999, 100), Rat(40, 1), Rat(60, 1)}

SentenceLengths == {Rat(999, 100), Rat(10, 1), Rat(15, 1), Rat(20, 1), Rat(25, 1),
                    Rat(2501, 100)}

HeadingStructures ==
    {[has_h1 |-> h1 > 0, h1_count |-> h1, h2_count |-> h2, h3_count |-> 0,
      proper_hierarchy |-> ph] :
        h1 \in 0..1, h2 \in H2Counts, ph \in BOOLEAN}

AnalysesOf(word_counts, density_maps, heading_structures, flesch_values, lengths) ==
    {[word_count |-> wc, keyword_density |-> kd, primary_keywords |-> <<>>,
      heading_structure |-> hs, readability |-> [flesch_score |-> fs],
      has_meta_description |-> md, average_sentence_length |-> sl] :
        wc \in word_counts, kd \in density_maps, hs \in heading_structures,
        fs \in flesch_values, md \in BOOLEAN, sl \in lengths}

NoAnalysis == [exc |-> "", ret |-> <<>>]

NoResult == [exc |-> "", ret |-> 0]

NoSuggestions == [exc |-> "", ret |-> <<>>]

InitScore ==
    /\ pc = "analyzed"
    /\ optimizer \in Configs
    /\ text = <<>>
    /\ keywords = <<>>
    /\ analysis \in {[exc |-> "", ret |-> an] :
                        an \in AnalysesOf(WordCounts, DensityMaps, HeadingStructures,
                                          FleschValues, SentenceLengths)}
    /\ result = NoResult
    /\ syllables = 0
    /\ suggestions = NoSuggestions
    /\ OthersIdle

\* optimized['seo_score'] = self._calculate_seo_score(analysis)
CalculateSeoScore ==
    /\ pc = "analyzed"
    /\ analysis.exc = ""
    /\ result' = _calculate_seo_score(analysis.ret, optimizer)
    /\ pc' = "scored"
    /\ UNCHANGED <<optimizer, text, keywords, analysis, syllables, suggestions>>
    /\ UNCHANGED others

NextScore == CalculateSeoScore

SpecScore == InitScore /\ [][NextScore]_vars

(***************************************************************************)
(* C1: every score the scorer returns is an integer in [0,100].            *)
(***************************************************************************)
ScoreInRange ==
    pc = "scored" => /\ result.exc = ""
                     /\ result.ret \in 0..100

ScoreInRangeWitness ==
    /\ pc = "scored"
    /\ analysis.ret.keyword_density = <<>>
    /\ analysis.ret.heading_structure.h2_count = 0
    /\ analysis.ret.heading_structure.h1_count = 0
    /\ result.ret = 5

(***************************************************************************)
(* The point table of the scorer, signal by signal, as a closed form.      *)
(***************************************************************************)
InBand(x, lo, hi) == ~Less(x, lo) /\ ~Less(hi, x)

TableW(wc, min, max) ==
    CASE min <= wc /\ wc <= max -> 20
      [] wc > max -> 10
      [] wc < min -> 5

TableK(kd) ==
    CASE {i \in 1..Len(kd) : InBand(kd[i].density, Rat(3, 2), Rat(3, 1))} # {} -> 20
      [] OTHER -> IF Len(kd) > 0 THEN 10 ELSE 0

TableH(has_h1, h2_count, proper_hierarchy) ==
    5 * Cardinality({s \in {"h1", "h2", "ph"} :
                        \/ s = "h1" /\ has_h1
                        \/ s = "h2" /\ h2_count >= 3
                        \/ s = "ph" /\ proper_hierarchy})

TableR(fs) ==
    CASE ~Less(fs, Rat(60, 1)) -> 20
      [] ~Less(fs, Rat(40, 1)) -> 10
      [] OTHER -> 0

TableM(md) == IF md THEN 10 ELSE 0

TableS(sl) ==
    CASE InBand(sl, Rat(15, 1), Rat(20, 1)) -> 15
      [] InBand(sl, Rat(10, 1), Rat(25, 1)) -> 8
      [] OTHER -> 0

TableSum(an, self) ==
    TableW(an.word_count, self.min_word_count, self.max_word_count)
    + TableK(an.keyword_density)
    + TableH(an.heading_structure.has_h1, an.heading_structure.h2_count,
             an.heading_structure.proper_hierarchy)
    + TableR(an.readability.flesch_score)
    + TableM(an.has_meta_description)
    + TableS(an.average_sentence_length)

(***************************************************************************)
(* C2: for a fully populated analysis and min_word_count <= max_word_count *)
(* the score is min(100, W+K+H+R+M+S) of the point table.                  *)
(***************************************************************************)
ScoreIsTableSum ==
    (pc = "scored" /\ optimizer.min_word_count <= optimizer.max_word_count)
        => /\ result.exc = ""
           /\ result.ret = Min(100, TableSum(analysis.ret, optimizer))

\* too long, the second keyword alone in the ideal band, sentence length in
\* the outer band: 10 + 20 + 10 + 10 + 0 + 8
ScoreIsTableSumWitness ==
    /\ pc = "scored"
    /\ optimizer.min_word_count <= optimizer.max_word_count
    /\ analysis.ret.word_count > optimizer.max_word_count
    /\ Len(analysis.ret.keyword_density) = 2
    /\ analysis.ret.keyword_density[1].density = Rat(301, 100)
    /\ analysis.ret.keyword_density[2].density = Rat(300, 100)
    /\ analysis.ret.heading_structure.has_h1
    /\ analysis.ret.heading_structure.h2_count = 2
    /\ analysis.ret.heading_structure.proper_hierarchy
    /\ analysis.ret.readability.flesch_score = Rat(40, 1)
    /\ ~analysis.ret.has_meta_description
    /\ analysis.ret.average_sentence_length = Rat(25, 1)
    /\ result.ret = 58

(***************************************************************************)
(* Analyses that differ from an in one signal only, that signal larger.    *)
(***************************************************************************)
LargerH2(an) ==
    {[an EXCEPT !.heading_structure.h2_count = v] :
        v \in {w \in H2Counts \cup {4} : w > an.heading_structure.h2_count}}

LargerFlesch(an) ==
    {[an EXCEPT !.readability.flesch_score = v] :
        v \in {w \in FleschValues \cup {Rat(100, 1)} :
                  Less(an.readability.flesch_score, w)}}

LargerMeta(an) ==
    {[an EXCEPT !.has_meta_description = TRUE] :
        v \in {w \in {TRUE} : ~an.has_meta_description}}

LargerWordCount(an) ==
    {[an EXCEPT !.word_count = v] : v \in {w \in WordCounts : w > an.word_count}}

LargerDensity(an) ==
    UNION {{[an EXCEPT !.keyword_density[i].density = v] :
               v \in {w \in DensityValues : Less(an.keyword_density[i].density, w)}} :
           i \in 1..Len(an.keyword_density)}

LargerSentenceLength(an) ==
    {[an EXCEPT !.average_sentence_length = v] :
        v \in {w \in SentenceLengths : Less(an.average_sentence_length, w)}}

NeverLower(variants) ==
    \A b \in variants : _calculate_seo_score(b, optimizer).ret >= result.ret

(***************************************************************************)
(* C3 as stated: raising any one signal (word_count, one keyword's         *)
(* density, h2_count, flesch_score, has_meta_description or                *)
(* average_sentence_length) never lowers the score.                        *)
(***************************************************************************)
MonotonicInEverySignal ==
    pc = "scored" =>
        NeverLower(LargerWordCount(analysis.ret) \cup LargerDensity(analysis.ret)
                   \cup LargerH2(analysis.ret) \cup LargerFlesch(analysis.ret)
                   \cup LargerMeta(analysis.ret)
                   \cup LargerSentenceLength(analysis.ret))

(***************************************************************************)
(* C3 as amended: raising h2_count, flesch_score or has_meta_description   *)
(* alone never lowers the score.                                           *)
(***************************************************************************)
MonotonicInHeadingsFleschMeta ==
    pc = "scored" =>
        NeverLower(LargerH2(analysis.ret) \cup LargerFlesch(analysis.ret)
                   \cup LargerMeta(analysis.ret))

\* h2_count raised from 2 to 3 gains the five points, meta description ten
MonotonicWitness ==
    /\ pc = "scored"
    /\ analysis.ret.heading_structure.h2_count = 2
    /\ ~analysis.ret.has_meta_description
    /\ result.ret = 53
    /\ \E b \in LargerH2(analysis.ret) :
          /\ b.heading_structure.h2_count = 3
          /\ _calculate_seo_score(b, optimizer).ret = 58
    /\ \E b \in LargerMeta(analysis.ret) :
          _calculate_seo_score(b, optimizer).ret = 63

(***************************************************************************)
(* Analyses with fields missing.                                           *)
(***************************************************************************)
Fields == {"word_count", "keyword_density", "heading_structure", "readability",
           "has_meta_description", "average_sentence_length",
           "heading_structure.has_h1", "heading_structure.h2_count",
           "heading_structure.proper_hierarchy", "readability.flesch_score"}

Drop(an, missing) ==
    LET top == {k \in DOMAIN an : k \notin missing}
        inner(k) == {f \in DOMAIN an[k] : (k \o "." \o f) \notin missing}
    IN  [k \in top |->
            IF k \in {"heading_structure", "readability"}
            THEN Restrict(an[k], inner(k))
            ELSE an[k]]

BaseAnalyses ==
    AnalysesOf({799, 800},
               {<<>>, <<[keyword |-> KeywordName(1), count |-> 1,
                         density |-> Rat(150, 100)]>>},
               {hs \in HeadingStructures : hs.h2_count \in {0, 3}},
               {Rat(3999, 100), Rat(60, 1)},
               {Rat(999, 100), Rat(15, 1)})

InitMissing ==
    /\ pc = "analyzed"
    /\ optimizer = DefaultConfig
    /\ text = <<>>
    /\ keywords = <<>>
    /\ analysis \in {[exc |-> "", ret |-> Drop(an, missing)] :
                        an \in BaseAnalyses,
                        missing \in {m \in SUBSET Fields : Cardinality(m) <= MaxMissing}}
    /\ result = NoResult
    /\ syllables = 0
    /\ suggestions = NoSuggestions
    /\ OthersIdle

SpecMissing == InitMissing /\ [][NextScore]_vars

Present(dict, key) == key \in DOMAIN dict

(***************************************************************************)
(* C4 as stated: with any field missing the scorer still returns a score,  *)
(* and the signal of a missing field contributes its minimum of points     *)
(* (5 for the word count, 0 for every other signal or heading flag).       *)
(***************************************************************************)
MissingFieldIsWorstCase ==
    pc = "scored" =>
        LET an == analysis.ret
            hs == IF Present(an, "heading_structure") THEN an.heading_structure
                  ELSE <<>>
            rd == IF Present(an, "readability") THEN an.readability ELSE <<>>
        IN  /\ result.exc = ""
            /\ result.ret =
                 (IF Present(an, "word_count")
                  THEN TableW(an.word_count, optimizer.min_word_count,
                              optimizer.max_word_count)
                  ELSE 5)
               + (IF Present(an, "keyword_density") THEN TableK(an.keyword_density)
                  ELSE 0)
               + TableH(Present(hs, "has_h1") /\ hs.has_h1,
                        IF Present(hs, "h2_count") THEN hs.h2_count ELSE 0,
                        Present(hs, "proper_hierarchy") /\ hs.proper_hierarchy)
               + (IF Present(rd, "flesch_score") THEN TableR(rd.flesch_score) ELSE 0)
               + (IF Present(an, "has_meta_description")
                  THEN TableM(an.has_meta_description) ELSE 0)
               + (IF Present(an, "average_sentence_length")
                  THEN TableS(an.average_sentence_length) ELSE 0)

(***************************************************************************)
(* C4 as amended: an analysis lacking word_count, keyword_density,         *)
(* heading_structure or readability raises KeyError; otherwise a score is  *)
(* returned in which a missing has_h1, h2_count, flesch_score or           *)
(* has_meta_description contributes 0 points, a missing proper_hierarchy   *)
(* contributes its 5 points and a missing average_sentence_length its 15.  *)
(***************************************************************************)
MissingFieldDefaults ==
    pc = "scored" =>
        LET an == analysis.ret
        IN  IF \E k \in {"word_count", "keyword_density", "heading_structure",
                         "readability"} : ~Present(an, k)
            THEN result.exc = "KeyError"
            ELSE
              LET hs == an.heading_structure
                  rd == an.readability
              IN  /\ result.exc = ""
                  /\ result.ret =
                       TableW(an.word_count, optimizer.min_word_count,
                              optimizer.max_word_count)
                     + TableK(an.keyword_density)
                     + TableH(Present(hs, "has_h1") /\ hs.has_h1,
                              IF Present(hs, "h2_count") THEN hs.h2_count ELSE 0,
                              Present(hs, "proper_hierarchy") => hs.proper_hierarchy)
                     + (IF Present(rd, "flesch_score") THEN TableR(rd.flesch_score)
                        ELSE 0)
                     + (IF Present(an, "has_meta_description")
                        THEN TableM(an.has_meta_description) ELSE 0)
                     + (IF Present(an, "average_sentence_length")
                        THEN TableS(an.average_sentence_length) ELSE 15)

\* proper_hierarchy and average_sentence_length both missing: 5 + 0 + 5 + 0 + 0 + 15
MissingFieldWitness ==
    /\ pc = "scored"
    /\ result.exc = ""
    /\ ~Present(analysis.ret, "average_sentence_length")
    /\ ~Present(analysis.ret.heading_structure, "proper_hierarchy")
    /\ ~analysis.ret.heading_structure.has_h1
    /\ result.ret = 25

(***************************************************************************)
(* Strings: str.lower, str.split, str.count, str.startswith, re.split.     *)
(***************************************************************************)
Uppers == <<"A", "B", "C", "D", "E", "F", "G", "H", "I", "J", "K", "L", "M",
            "N", "O", "P", "Q", "R", "S", "T", "U", "V", "W", "X", "Y", "Z">>

Lowers == <<"a", "b", "c", "d", "e", "f", "g", "h", "i", "j", "k", "l", "m",
            "n", "o", "p", "q", "r", "s", "t", "u", "v", "w", "x", "y", "z">>

LowerChar(c) ==
    IF \E i \in 1..Len(Uppers) : Uppers[i] = c
    THEN Lowers[CHOOSE i \in 1..Len(Uppers) : Uppers[i] = c]
    ELSE c

\* s.lower()
lower(s) == [i \in 1..Len(s) |-> LowerChar(s[i])]

Whitespace == {" ", "\n", "\t"}

\* The fragments of s[lo..hi] around its separator characters: what precedes
\* the first separator (head), what lies between two separators (mid), what
\* follows the last (tail).  The range is halved, so that a long text is
\* scanned at a depth logarithmic in its length.
RECURSIVE Fragments(_, _, _, _)
Fragments(s, seps, lo, hi) ==
    IF lo > hi
    THEN [cut |-> FALSE, head |-> <<>>, mid |-> <<>>, tail |-> <<>>]
    ELSE IF lo = hi
    THEN IF s[lo] \in seps
         THEN [cut |-> TRUE, head |-> <<>>, mid |-> <<>>, tail |-> <<>>]
         ELSE [cut |-> FALSE, head |-> <<s[lo]>>, mid |-> <<>>, tail |-> <<>>]
    ELSE LET m == (lo + hi) \div 2
             a == Fragments(s, seps, lo, m)
             b == Fragments(s, seps, m + 1, hi)
         IN  IF ~a.cut /\ ~b.cut
             THEN [cut |-> FALSE, head |-> a.head \o b.head,
                   mid |-> <<>>, tail |-> <<>>]
             ELSE IF ~b.cut
             THEN [cut |-> TRUE, head |-> a.head, mid |-> a.mid,
                   tail |-> a.tail \o b.head]
             ELSE IF ~a.cut
             THEN [cut |-> TRUE, head |-> a.head \o b.head, mid |-> b.mid,
                   tail |-> b.tail]
             ELSE [cut |-> TRUE, head |-> a.head,
                   mid |-> a.mid \o <<a.tail \o b.head>> \o b.mid,
                   tail |-> b.tail]

NonEmpty(fragment) == fragment # <<>>

\* s.split(): the maximal runs of non-whitespace characters
split(s) ==
    LET f == Fragments(s, Whitespace, 1, Len(s))
    IN  SelectSeq(<<f.head>> \o f.mid \o <<f.tail>>, NonEmpty)

\* s.split('\n'): empty lines kept
split_lines(s) ==
    LET f == Fragments(s, {"\n"}, 1, Len(s))
    IN  IF f.cut THEN <<f.head>> \o f.mid \o <<f.tail>> ELSE <<f.head>>

Terminators == {".", "!", "?"}

re_split_dropping_empty(s) ==
    LET f == Fragments(s, Terminators, 1, Len(s))
    IN  SelectSeq(<<f.head>> \o f.mid \o <<f.tail>>, NonEmpty)

\* re.split(r'[.!?]+', s): a run of terminators is one delimiter, so no
\* empty fragment lies between two terminators; empty leading and trailing
\* fragments are kept
re_split(s) ==
    LET f == Fragments(s, Terminators, 1, Len(s))
    IN  IF f.cut THEN <<f.head>> \o SelectSeq(f.mid, NonEmpty) \o <<f.tail>>
        ELSE <<f.head>>

str_count_overlapping(s, sub) ==
    IF sub = <<>> THEN Len(s) + 1
    ELSE Cardinality({i \in 1..(Len(s) - Len(sub) + 1) :
                         SubSeq(s, i, i + Len(sub) - 1) = sub})

\* The search for sub over the start positions lo..hi of s.  On entry the
\* previous match still covers k of these positions; the result gives, for
\* each k, the matches found and the positions after hi that the last match
\* covers.  The range is halved as in Fragments.
RECURSIVE CountFrom(_, _, _, _)
CountFrom(s, sub, lo, hi) ==
    IF lo = hi
    THEN [k \in 0..(Len(sub) - 1) |->
             IF k > 0 THEN [found |-> 0, covered |-> k - 1]
             ELSE IF lo + Len(sub) - 1 <= Len(s)
                     /\ SubSeq(s, lo, lo + Len(sub) - 1) = sub
             THEN [found |-> 1, covered |-> Len(sub) - 1]
             ELSE [found |-> 0, covered |-> 0]]
    ELSE LET m == (lo + hi) \div 2
             a == CountFrom(s, sub, lo, m)
             b == CountFrom(s, sub, m + 1, hi)
         IN  [k \in 0..(Len(sub) - 1) |->
                 LET left == a[k]
                     right == b[left.covered]
                 IN  [found |-> left.found + right.found,
                      covered |-> right.covered]]

\* s.count(sub): the matches found scanning left to right, each search
\* resuming after the previous match; the empty string matches len(s)+1 times
str_count(s, sub) ==
    IF sub = <<>> THEN Len(s) + 1
    ELSE IF s = <<>> THEN 0
    ELSE CountFrom(s, sub, 1, Len(s))[0].found

\* line.startswith(prefix)
startswith(line, prefix) ==
    Len(line) >= Len(prefix) /\ SubSeq(line, 1, Len(prefix)) = prefix

\* s.strip() is non-empty
StripNonEmpty(s) == \E i \in 1..Len(s) : s[i] \notin Whitespace

RECURSIVE SumFrom(_, _, _)
SumFrom(q, lo, hi) ==
    IF lo > hi THEN 0
    ELSE IF lo = hi THEN q[lo]
    ELSE SumFrom(q, lo, (lo + hi) \div 2) + SumFrom(q, (lo + hi) \div 2 + 1, hi)

\* sum(q)
SumSeq(q) == SumFrom(q, 1, Len(q))

(***************************************************************************)
(* Float arithmetic of the analyzer.                                       *)
(***************************************************************************)
\* a / b: ZeroDivisionError (d = 0) when b is 0
TrueDiv(a, b) == Rat(a, b)

\* round(x, 2), the result in hundredths; an exact tie goes to the even
\* hundredth
round2(x) ==
    IF Raised(x) THEN x
    ELSE LET t == 100 * x.n
             fl == t \div x.d
             rem == t % x.d
         IN  Rat(IF 2 * rem < x.d THEN fl
                 ELSE IF 2 * rem > x.d THEN fl + 1
                 ELSE IF fl % 2 = 0 THEN fl ELSE fl + 1, 100)

IsZero(x) == ~Raised(x) /\ x.n = 0

(***************************************************************************)
(* _count_syllables                                                        *)
(***************************************************************************)
Vowels == {"a", "e", "i", "o", "u", "y"}

RECURSIVE SyllableLoop(_, _, _, _)
SyllableLoop(word, i, count, previous_was_vowel) ==
    IF i > Len(word) THEN count
    ELSE LET is_vowel == word[i] \in Vowels
         IN  SyllableLoop(word, i + 1,
                          IF is_vowel /\ ~previous_was_vowel THEN count + 1 ELSE count,
                          is_vowel)

_count_syllables_no_silent_e(word0) ==
    Max(1, SyllableLoop(lower(word0), 1, 0, FALSE))

_count_syllables(word0) ==
    LET word == lower(word0)
        count == SyllableLoop(word, 1, 0, FALSE)
    IN  Max(1, IF word # <<>> /\ word[Len(word)] = "e" THEN count - 1 ELSE count)

(***************************************************************************)
(* _calculate_readability                                                  *)
(***************************************************************************)
\* 206.835 - 1.015 * a - 84.6 * b, exactly: in two-hundredths,
\* 41367/200 - 203/200 * a - 16920/200 * b
FleschFormula(a, b) ==
    Rat(41367 * a.d * b.d - 203 * a.n * b.d - 16920 * b.n * a.d,
        200 * a.d * b.d)

NoClamp(x) == x

\* max(0, min(100, x))
Clamp(x) ==
    IF Raised(x) THEN x
    ELSE LET m == IF Leq(Rat(100, 1), x) THEN Rat(100, 1) ELSE x
         IN  IF Leq(m, Rat(0, 1)) THEN Rat(0, 1) ELSE m

Readability(sentences, words, syllable_count, flesch_score) ==
    [flesch_score |-> Clamp(flesch_score),
     sentence_count |-> Len(sentences),
     word_count |-> Len(words),
     syllable_count |-> syllable_count]

\* sentences, words and syllable_count are each computed once, as the
\* local variables of the code are
_calculate_readability(txt) ==
    CHOOSE readability \in UNION {
        {LET flesch_score ==
                 IF Len(sentences) > 0 /\ Len(words) > 0
                 THEN FleschFormula(TrueDiv(Len(words), Len(sentences)),
                                    TrueDiv(syllable_count, Len(words)))
                 ELSE Rat(0, 1)
         IN  Readability(sentences, words, syllable_count, flesch_score) :
            syllable_count \in
                {SumSeq([i \in 1..Len(words) |-> _count_syllables(words[i])])}} :
        sentences \in {re_split(txt)}, words \in {split(txt)}} : TRUE

(***************************************************************************)
(* _calculate_avg_sentence_length                                          *)
(***************************************************************************)
\* the average over every fragment: the empty fragments are
\* counted
AvgOverAllFragments(txt) ==
    CHOOSE average \in
        {LET total_words ==
                 SumSeq([i \in 1..Len(sentences) |-> Len(split(sentences[i]))])
         IN  IF sentences = <<>> THEN Rat(0, 1)
             ELSE TrueDiv(total_words, Len(sentences)) :
            sentences \in {re_split(txt)}} : TRUE

_calculate_avg_sentence_length(txt) ==
    CHOOSE average \in
        {LET total_words ==
                 SumSeq([i \in 1..Len(sentences) |-> Len(split(sentences[i]))])
         IN  IF sentences = <<>> THEN Rat(0, 1)
             ELSE TrueDiv(total_words, Len(sentences)) :
            sentences \in {SelectSeq(re_split(txt), StripNonEmpty)}} : TRUE

(***************************************************************************)
(* _analyze_headings                                                       *)
(***************************************************************************)
CountLines(lines, prefix) ==
    Cardinality({i \in 1..Len(lines) : startswith(lines[i], prefix)})

Headings(h1_count, h2_count, h3_count) ==
    [has_h1 |-> h1_count > 0,
     h1_count |-> h1_count,
     h2_count |-> h2_count,
     h3_count |-> h3_count,
     proper_hierarchy |-> h1_count <= 1]

_analyze_headings_no_space(txt) ==
    LET lines == split_lines(txt)
    IN  Headings(CountLines(lines, <<"#">>),
                 CountLines(lines, <<"#", "#", " ">>),
                 CountLines(lines, <<"#", "#", "#", " ">>))

_analyze_headings(txt) ==
    LET lines == split_lines(txt)
    IN  Headings(CountLines(lines, <<"#", " ">>),
                 CountLines(lines, <<"#", "#", " ">>),
                 CountLines(lines, <<"#", "#", "#", " ">>))

(***************************************************************************)
(* analyze_seo                                                             *)
(***************************************************************************)
\* _get_stop_words()
StopWords ==
    {<<"t", "h", "e">>, <<"a">>, <<"a", "n">>, <<"a", "n", "d">>,
     <<"o", "r">>, <<"b", "u", "t">>, <<"i", "n">>, <<"o", "n">>,
     <<"a", "t">>, <<"t", "o">>, <<"f", "o", "r">>, <<"o", "f">>,
     <<"w", "i", "t", "h">>, <<"b", "y">>, <<"f", "r", "o", "m">>,
     <<"a", "s">>, <<"i", "s">>, <<"w", "a", "s">>, <<"a", "r", "e">>,
     <<"b", "e", "e", "n">>, <<"b", "e">>, <<"h", "a", "v", "e">>,
     <<"h", "a", "s">>, <<"h", "a", "d">>, <<"d", "o">>,
     <<"d", "o", "e", "s">>, <<"d", "i", "d">>, <<"w", "i", "l", "l">>,
     <<"w", "o", "u", "l", "d">>, <<"c", "o", "u", "l", "d">>,
     <<"s", "h", "o", "u", "l", "d">>, <<"m", "a", "y">>,
     <<"m", "i", "g", "h", "t">>, <<"m", "u", "s", "t">>, <<"c", "a", "n">>,
     <<"t", "h", "i", "s">>, <<"t", "h", "a", "t">>,
     <<"t", "h", "e", "s", "e">>, <<"t", "h", "o", "s", "e">>, <<"i">>,
     <<"y", "o", "u">>, <<"h", "e">>, <<"s", "h", "e">>, <<"i", "t">>,
     <<"w", "e">>, <<"t", "h", "e", "y">>, <<"w", "h", "a", "t">>,
     <<"w", "h", "i", "c", "h">>, <<"w", "h", "o">>, <<"w", "h", "e", "n">>,
     <<"w", "h", "e", "r", "e">>, <<"w", "h", "y">>, <<"h", "o", "w">>,
     <<"a", "l", "l">>, <<"e", "a", "c", "h">>, <<"e", "v", "e", "r", "y">>,
     <<"b", "o", "t", "h">>, <<"f", "e", "w">>, <<"m", "o", "r", "e">>,
     <<"m", "o", "s", "t">>, <<"o", "t", "h", "e", "r">>,
     <<"s", "o", "m", "e">>, <<"s", "u", "c", "h">>, <<"n", "o">>,
     <<"n", "o", "r">>, <<"n", "o", "t">>, <<"o", "n", "l", "y">>,
     <<"s", "a", "m", "e">>, <<"s", "o">>, <<"t", "h", "a", "n">>,
     <<"t", "o", "o">>, <<"v", "e", "r", "y">>, <<"j", "u", "s", "t">>,
     <<"t", "h", "e", "r", "e">>}

\* keyword_density[keyword] = value: a new key goes last, a key already
\* present keeps its place
DictSet(items, item) ==
    IF \E i \in 1..Len(items) : items[i].keyword = item.keyword
    THEN [i \in 1..Len(items) |->
             IF items[i].keyword = item.keyword THEN item ELSE items[i]]
    ELSE Append(items, item)

DensityEntryOverlapping(txt, keyword, word_count) ==
    [keyword |-> keyword,
     count |-> str_count_overlapping(lower(txt), lower(keyword)),
     density |-> round2(IF word_count > 0
                        THEN TrueDiv(str_count_overlapping(lower(txt), lower(keyword)) * 100,
                                     word_count)
                        ELSE Rat(0, 1))]

DensityEntryUnguarded(txt, keyword, word_count) ==
    [keyword |-> keyword,
     count |-> str_count(lower(txt), lower(keyword)),
     density |-> round2(TrueDiv(str_count(lower(txt), lower(keyword)) * 100,
                                word_count))]

DensityEntryCaseSensitive(txt, keyword, word_count) ==
    [keyword |-> keyword,
     count |-> str_count(lower(txt), keyword),
     density |-> round2(IF word_count > 0
                        THEN TrueDiv(str_count(lower(txt), keyword) * 100, word_count)
                        ELSE Rat(0, 1))]

DensityEntry(txt, keyword, word_count) ==
    LET keyword_lower == lower(keyword)
        count == str_count(lower(txt), keyword_lower)
        density == IF word_count > 0 THEN TrueDiv(count * 100, word_count)
                   ELSE Rat(0, 1)
    IN  [keyword |-> keyword, count |-> count, density |-> round2(density)]

RECURSIVE KeywordDensity(_, _, _, _)
KeywordDensity(txt, target_keywords, word_count, items) ==
    IF target_keywords = <<>> THEN items
    ELSE KeywordDensity(txt, Tail(target_keywords), word_count,
                        DictSet(items, DensityEntry(txt, Head(target_keywords),
                                                    word_count)))

\* the distinct words in order of first occurrence, as Counter holds them
Distinct(words) ==
    LET firsts == SelectSeq([i \in 1..Len(words) |-> i],
                            LAMBDA i : \A j \in 1..(i - 1) : words[j] # words[i])
    IN  [k \in 1..Len(firsts) |-> words[firsts[k]]]

Frequency(words, w) == Cardinality({i \in 1..Len(words) : words[i] = w})

\* equal counts in the reverse of the order the Counter holds them
RECURSIVE MostCommonLastFirst(_, _)
MostCommonLastFirst(keys, words) ==
    IF keys = <<>> THEN <<>>
    ELSE LET best == CHOOSE i \in 1..Len(keys) :
                        /\ \A j \in 1..Len(keys) :
                              Frequency(words, keys[j]) <= Frequency(words, keys[i])
                        /\ \A j \in (i + 1)..Len(keys) :
                              Frequency(words, keys[j]) < Frequency(words, keys[i])
         IN  <<keys[best]>>
             \o MostCommonLastFirst(SubSeq(keys, 1, best - 1)
                                        \o SubSeq(keys, best + 1, Len(keys)), words)

\* Counter.most_common: by count, largest first, equal counts in the order
\* the Counter holds them
RECURSIVE MostCommon(_, _)
MostCommon(keys, words) ==
    IF keys = <<>> THEN <<>>
    ELSE LET best == CHOOSE i \in 1..Len(keys) :
                        /\ \A j \in 1..Len(keys) :
                              Frequency(words, keys[j]) <= Frequency(words, keys[i])
                        /\ \A j \in 1..(i - 1) :
                              Frequency(words, keys[j]) < Frequency(words, keys[i])
         IN  <<keys[best]>>
             \o MostCommon(SubSeq(keys, 1, best - 1) \o SubSeq(keys, best + 1, Len(keys)),
                           words)

IsCandidate(w) == w \notin StopWords /\ Len(w) > 3

PrimaryKeywords(words) ==
    LET ranked == MostCommon(SelectSeq(Distinct(words), IsCandidate), words)
    IN  SubSeq(ranked, 1, Min(10, Len(ranked)))

\* words, keyword_density, readability and average_sentence_length are each
\* computed once, as the local variables and dict values of the code are
analyze_seo(txt, target_keywords) ==
    CHOOSE returned \in UNION {
        {LET word_count == Len(words)
             failed == \/ \E i \in 1..Len(keyword_density) :
                            Raised(keyword_density[i].density)
                       \/ Raised(readability.flesch_score)
                       \/ Raised(average_sentence_length)
         IN  IF failed THEN [exc |-> "ZeroDivisionError", ret |-> <<>>]
             ELSE [exc |-> "",
                   ret |-> [word_count |-> word_count,
                            keyword_density |-> keyword_density,
                            primary_keywords |-> PrimaryKeywords(words),
                            heading_structure |-> _analyze_headings(txt),
                            readability |-> readability,
                            has_meta_description |-> txt # <<>>,
                            average_sentence_length |-> average_sentence_length]] :
            keyword_density \in {KeywordDensity(txt, target_keywords, Len(words), <<>>)}} :
        words \in {split(lower(txt))},
        readability \in {_calculate_readability(txt)},
        average_sentence_length \in {_calculate_avg_sentence_length(txt)}} : TRUE

(***************************************************************************)
(* The analyzer applied to a text and its target keywords.                 *)
(***************************************************************************)
Strings(alphabet, maxlen) == UNION {[1..n -> alphabet] : n \in 0..maxlen}

Lists(elements, maxlen) == UNION {[1..n -> elements] : n \in 0..maxlen}

InitAnalyze(texts, keyword_lists) ==
    /\ pc = "start"
    /\ optimizer = DefaultConfig
    /\ text \in texts
    /\ keywords \in keyword_lists
    /\ analysis = NoAnalysis
    /\ result = NoResult
    /\ syllables = 0
    /\ suggestions = NoSuggestions
    /\ OthersIdle

\* analysis = self.analyze_seo(text_content, keywords)
AnalyzeSeo ==
    /\ pc = "start"
    /\ analysis' = analyze_seo(text, keywords)
    /\ pc' = "analyzed"
    /\ UNCHANGED <<optimizer, text, keywords, result, syllables, suggestions>>
    /\ UNCHANGED others

NextAnalyze == AnalyzeSeo

\* self.optimizer._count_syllables(word)
CountSyllables ==
    /\ pc = "start"
    /\ syllables' = _count_syllables(text)
    /\ pc' = "counted"
    /\ UNCHANGED <<optimizer, text, keywords, analysis, result, suggestions>>
    /\ UNCHANGED others

NextSyllables == CountSyllables

(***************************************************************************)
(* Keyword density: texts of words in both cases, keywords that overlap    *)
(* themselves, the empty keyword, and "cat" against "the cat catalog".     *)
(***************************************************************************)
MaxDensityTextLen == 4
MaxTargets == 2

DensityAlphabet == {"a", "A", "b", " "}

TargetKeywords == {<<>>, <<"a", "a">>, <<"A", "b">>}

Cat == <<"c", "a", "t">>

TheCatCatalog ==
    <<"t", "h", "e", " ", "c", "a", "t", " ", "c", "a", "t", "a",
      "l", "o", "g">>

InitDensity ==
    InitAnalyze(Strings(DensityAlphabet, MaxDensityTextLen) \cup {TheCatCatalog},
                Lists(TargetKeywords, MaxTargets) \cup {<<Cat>>})

SpecDensity == InitDensity /\ [][NextAnalyze]_vars

\* where an occurrence of sub begins in s
Occurrences(s, sub) ==
    {i \in 1..(Len(s) - Len(sub) + 1) : SubSeq(s, i, i + Len(sub) - 1) = sub}

NonOverlapping(starts, sub) ==
    \A i, j \in starts : i < j => i + Len(sub) <= j

\* the largest number of occurrences of sub in s no two of which overlap
MaxNonOverlapping(s, sub) ==
    LET sizes == {Cardinality(c) : c \in {d \in SUBSET Occurrences(s, sub) :
                                             NonOverlapping(d, sub)}}
    IN  CHOOSE n \in sizes : \A m \in sizes : m <= n

\* where a whitespace-separated token begins
TokenStarts(s) ==
    {i \in 1..Len(s) : s[i] \notin Whitespace /\ (i = 1 \/ s[i - 1] \in Whitespace)}

\* x is r rounded to hundredths: a multiple of 0.01 within 0.005 of r
RoundedToHundredths(x, r) ==
    /\ x.d = 100
    /\ LET diff == x.n * r.d - 100 * r.n
       IN  2 * (IF diff < 0 THEN -diff ELSE diff) <= r.d

EntryOf(keyword) ==
    LET kd == analysis.ret.keyword_density
    IN  kd[CHOOSE i \in 1..Len(kd) : kd[i].keyword = keyword]

(***************************************************************************)
(* C5: for every text and target keyword k, count is the number of         *)
(* non-overlapping occurrences of lowercase(k) as a substring of the       *)
(* lowercased text, and density is count / word_count * 100 rounded to two *)
(* decimals (0 when there are no words), word_count being the number of    *)
(* whitespace-separated tokens; "cat" in "the cat catalog" counts 2.       *)
(***************************************************************************)
DensityIsSubstringCount ==
    pc = "analyzed" =>
        /\ analysis.exc = ""
        /\ analysis.ret.word_count = Cardinality(TokenStarts(text))
        /\ \A k \in 1..Len(keywords) :
              /\ Cardinality({i \in 1..Len(analysis.ret.keyword_density) :
                     analysis.ret.keyword_density[i].keyword = keywords[k]}) = 1
              /\ EntryOf(keywords[k]).count
                    = MaxNonOverlapping(lower(text), lower(keywords[k]))
              /\ IF analysis.ret.word_count = 0
                 THEN IsZero(EntryOf(keywords[k]).density)
                 ELSE RoundedToHundredths(
                          EntryOf(keywords[k]).density,
                          Rat(EntryOf(keywords[k]).count * 100, analysis.ret.word_count))
        /\ (text = TheCatCatalog /\ keywords = <<Cat>>) => EntryOf(Cat).count = 2

DensityWitness ==
    /\ pc = "analyzed"
    /\ text = TheCatCatalog
    /\ keywords = <<Cat>>
    /\ analysis.ret.word_count = 3
    /\ EntryOf(Cat).count = 2
    /\ EntryOf(Cat).density = Rat(6667, 100)

(***************************************************************************)
(* C6: for a text without any whitespace-separated word, word_count is 0,  *)
(* every keyword's density is 0, and neither the density, the Flesch nor   *)
(* the average-sentence-length computation divides by zero: each is 0.     *)
(***************************************************************************)
NoWords(s) == \A i \in 1..Len(s) : s[i] \in Whitespace

ZeroWordsNoFault ==
    (pc = "analyzed" /\ NoWords(text)) =>
        /\ analysis.exc = ""
        /\ analysis.ret.word_count = 0
        /\ \A k \in 1..Len(keywords) : IsZero(EntryOf(keywords[k]).density)
        /\ IsZero(analysis.ret.readability.flesch_score)
        /\ IsZero(analysis.ret.average_sentence_length)

ZeroWordsWitness ==
    /\ pc = "analyzed"
    /\ text = <<" ", " ">>
    /\ keywords = <<<<"a", "a">>, <<>>>>
    /\ analysis.exc = ""
    /\ EntryOf(<<>>).count = 3
    /\ IsZero(EntryOf(<<>>).density)

(***************************************************************************)
(* C7 as stated: on the empty text every number of the analysis is 0,      *)
(* readability's sentence_count and every keyword's count included,        *)
(* primary_keywords is empty and has_h1 and has_meta_description are       *)
(* false.                                                                  *)
(***************************************************************************)
EmptyTextRest ==
    /\ analysis.exc = ""
    /\ analysis.ret.word_count = 0
    /\ \A k \in 1..Len(keywords) : IsZero(EntryOf(keywords[k]).density)
    /\ analysis.ret.heading_structure.h1_count = 0
    /\ analysis.ret.heading_structure.h2_count = 0
    /\ analysis.ret.heading_structure.h3_count = 0
    /\ IsZero(analysis.ret.readability.flesch_score)
    /\ analysis.ret.readability.word_count = 0
    /\ analysis.ret.readability.syllable_count = 0
    /\ IsZero(analysis.ret.average_sentence_length)
    /\ analysis.ret.primary_keywords = <<>>
    /\ ~analysis.ret.heading_structure.has_h1
    /\ ~analysis.ret.has_meta_description

EmptyTextAllZero ==
    (pc = "analyzed" /\ text = <<>>) =>
        /\ EmptyTextRest
        /\ \A k \in 1..Len(keywords) : EntryOf(keywords[k]).count = 0
        /\ analysis.ret.readability.sentence_count = 0

(***************************************************************************)
(* C7 as amended: on the empty text analyze_seo does not fail and every    *)
(* number of the analysis is 0 except readability's sentence_count, which  *)
(* is 1, and the count of an empty-string keyword, which is 1.             *)
(***************************************************************************)
EmptyTextZeroedButSentenceCount ==
    (pc = "analyzed" /\ text = <<>>) =>
        /\ EmptyTextRest
        /\ \A k \in 1..Len(keywords) :
              EntryOf(keywords[k]).count = IF keywords[k] = <<>> THEN 1 ELSE 0
        /\ analysis.ret.readability.sentence_count = 1

EmptyTextWitness ==
    /\ pc = "analyzed"
    /\ text = <<>>
    /\ keywords = <<<<"A", "b">>, <<>>>>
    /\ analysis.exc = ""
    /\ analysis.ret.readability.sentence_count = 1
    /\ EntryOf(<<>>).count = 1
    /\ EntryOf(<<"A", "b">>).count = 0

(***************************************************************************)
(* Readability: short texts of one- to three-syllable words and sentence   *)
(* terminators.                                                            *)
(***************************************************************************)
MaxReadTextLen == 6

ReadAlphabet == {"a", "b", " ", "."}

InitReadability == InitAnalyze(Strings(ReadAlphabet, MaxReadTextLen), {<<>>})

SpecReadability == InitReadability /\ [][NextAnalyze]_vars

\* the runs of sentence terminators
TerminatorRuns(s) ==
    {i \in 1..Len(s) : s[i] \in Terminators /\ (i = 1 \/ s[i - 1] \notin Terminators)}

\* 200 * S * W * (206.835 - 1.015 * W / S - 84.6 * Y / W)
RawFleschScaled(S, W, Y) == 41367 * S * W - 203 * W * W - 16920 * Y * S

(***************************************************************************)
(* C8: flesch_score lies in [0,100]; a raw Flesch value below 0 is         *)
(* reported as 0, one above 100 as 100, and a text without words scores 0. *)
(***************************************************************************)
FleschClamped ==
    pc = "analyzed" =>
        LET S == Cardinality(TerminatorRuns(text)) + 1
            W == Cardinality(TokenStarts(text))
            Y == analysis.ret.readability.syllable_count
            fs == analysis.ret.readability.flesch_score
        IN  /\ analysis.exc = ""
            /\ fs.d > 0
            /\ 0 <= fs.n
            /\ fs.n <= 100 * fs.d
            /\ W = 0 => fs.n = 0
            /\ (W > 0 /\ RawFleschScaled(S, W, Y) < 0) => fs.n = 0
            /\ (W > 0 /\ RawFleschScaled(S, W, Y) > 20000 * S * W) => fs.n = 100 * fs.d
            /\ (W > 0 /\ RawFleschScaled(S, W, Y) > 0
                      /\ RawFleschScaled(S, W, Y) < 20000 * S * W)
                  => fs = Rat(RawFleschScaled(S, W, Y), 200 * S * W)

\* one sentence of one three-syllable word: 206.835 - 1.015 - 253.8 < 0
FleschClampedWitness ==
    /\ pc = "analyzed"
    /\ text = <<"a", "b", "a", "b", "a">>
    /\ analysis.ret.readability.syllable_count = 3
    /\ analysis.ret.readability.sentence_count = 1
    /\ IsZero(analysis.ret.readability.flesch_score)

(***************************************************************************)
(* Syllables: words of vowels, consonants and capitals, and the reference  *)
(* words of the tests.                                                     *)
(***************************************************************************)
MaxWordLen == 5

SyllableAlphabet == {"a", "e", "b", "E"}

Hello == <<"h", "e", "l", "l", "o">>

Optimization ==
    <<"o", "p", "t", "i", "m", "i", "z", "a", "t", "i", "o",
      "n">>

InitSyllables ==
    InitAnalyze(Strings(SyllableAlphabet, MaxWordLen) \cup {Hello, Optimization}, {<<>>})

SpecSyllables == InitSyllables /\ [][NextSyllables]_vars

\* the vowels of w that do not follow a vowel
VowelGroupStarts(w) ==
    {i \in 1..Len(w) : w[i] \in Vowels /\ (i = 1 \/ w[i - 1] \notin Vowels)}

(***************************************************************************)
(* C9: _count_syllables(w) = max(1, T - E), T the number of vowels of      *)
(* lowercase(w) not preceded by a vowel and E = 1 iff lowercase(w) ends in *)
(* 'e'; so it is >= 1, and 2 for "hello", 1 for "a", 5 for "optimization". *)
(***************************************************************************)
SyllablesAreVowelGroups ==
    pc = "counted" =>
        LET w == lower(text)
            T == Cardinality(VowelGroupStarts(w))
            E == IF Len(w) > 0 /\ w[Len(w)] = "e" THEN 1 ELSE 0
        IN  /\ syllables = (IF T - E >= 1 THEN T - E ELSE 1)
            /\ syllables >= 1
            /\ text = Hello => syllables = 2
            /\ text = <<"a">> => syllables = 1
            /\ text = Optimization => syllables = 5

SyllablesWitness ==
    /\ pc = "counted"
    /\ text = Optimization
    /\ syllables = 5

(***************************************************************************)
(* Headings: lines of '#', blanks and letters, and the reference lines.    *)
(***************************************************************************)
MaxHeadingTextLen == 6

HeadingAlphabet == {"#", " ", "\n", "T"}

H1Title == <<"#", " ", "T", "i", "t", "l", "e">>

NoSpaceTitle == <<"#", "T", "i", "t", "l", "e">>

H4Title == <<"#", "#", "#", "#", " ", "T", "i", "t", "l", "e">>

InitHeadings ==
    InitAnalyze(Strings(HeadingAlphabet, MaxHeadingTextLen)
                    \cup {H1Title, NoSpaceTitle, H4Title}, {<<>>})

SpecHeadings == InitHeadings /\ [][NextAnalyze]_vars

\* where a line begins: at the start of the text and after every newline
LineStarts(s) == {1} \cup {i + 1 : i \in {j \in 1..Len(s) : s[j] = "\n"}}

\* the line beginning at i reads level times '#' and then a blank
MarksLevel(s, i, level) ==
    /\ i + level <= Len(s)
    /\ \A j \in i..(i + level - 1) : s[j] = "#"
    /\ s[i + level] = " "

(***************************************************************************)
(* C10: a line counts toward h1, h2, h3 exactly when it starts with "# ",  *)
(* "## ", "### " and toward no other level; has_h1 = (h1_count > 0) and    *)
(* proper_hierarchy = (h1_count <= 1).                                     *)
(***************************************************************************)
HeadingsByLinePrefix ==
    pc = "analyzed" =>
        LET hs == analysis.ret.heading_structure
        IN  /\ analysis.exc = ""
            /\ hs.h1_count = Cardinality({i \in LineStarts(text) : MarksLevel(text, i, 1)})
            /\ hs.h2_count = Cardinality({i \in LineStarts(text) : MarksLevel(text, i, 2)})
            /\ hs.h3_count = Cardinality({i \in LineStarts(text) : MarksLevel(text, i, 3)})
            /\ hs.has_h1 = (hs.h1_count > 0)
            /\ hs.proper_hierarchy = (hs.h1_count <= 1)
            /\ text = H1Title => <<hs.h1_count, hs.h2_count, hs.h3_count>> = <<1, 0, 0>>
            /\ text \in {NoSpaceTitle, H4Title}
                  => <<hs.h1_count, hs.h2_count, hs.h3_count>> = <<0, 0, 0>>

\* two H1 lines and an H2 line
HeadingsWitness ==
    /\ pc = "analyzed"
    /\ text = <<"#", " ", "\n", "#", " ">>
    /\ analysis.ret.heading_structure.h1_count = 2
    /\ analysis.ret.heading_structure.has_h1
    /\ ~analysis.ret.heading_structure.proper_hierarchy

(***************************************************************************)
(* Primary keywords: texts of whole words, up to eleven distinct eligible  *)
(* ones, with a stop word, a short word and a capitalised word.            *)
(***************************************************************************)
MaxExtraWords == 3

NineWords ==
    <<<<"a", "l", "p", "h", "a">>,
      <<"b", "r", "a", "v", "o">>,
      <<"d", "e", "l", "t", "a">>,
      <<"g", "a", "m", "m", "a">>,
      <<"k", "a", "p", "p", "a">>,
      <<"l", "a", "m", "b", "d", "a">>,
      <<"s", "i", "g", "m", "a">>,
      <<"t", "h", "e", "t", "a">>,
      <<"o", "m", "e", "g", "a">>>>

ExtraWords == {<<"z", "e", "t", "a">>,
               <<"Z", "e", "t", "a">>,
               <<"i", "o", "t", "a">>,
               <<"a", "l", "p", "h", "a">>,
               <<"t", "h", "e", "r", "e">>,
               <<"c", "a", "t">>}

RECURSIVE Join(_)
Join(words) ==
    IF words = <<>> THEN <<>>
    ELSE IF Len(words) = 1 THEN Head(words)
    ELSE Head(words) \o <<" ">> \o Join(Tail(words))

InitPrimary ==
    InitAnalyze({Join(prefix \o extra) :
                    prefix \in {<<>>, NineWords},
                    extra \in Lists(ExtraWords, MaxExtraWords)},
                {<<>>})

SpecPrimary == InitPrimary /\ [][NextAnalyze]_vars

\* the token that begins at i
TokenAt(s, i) ==
    LET last == CHOOSE j \in i..Len(s) :
                    /\ \A k \in i..j : s[k] \notin Whitespace
                    /\ j = Len(s) \/ s[j + 1] \in Whitespace
    IN  SubSeq(s, i, last)

TokenFrequency(s, w) == Cardinality({i \in TokenStarts(s) : TokenAt(s, i) = w})

FirstOccurrence(s, w) ==
    CHOOSE i \in TokenStarts(s) :
        /\ TokenAt(s, i) = w
        /\ \A j \in TokenStarts(s) : TokenAt(s, j) = w => i <= j

EligibleTokens(s) ==
    {w \in {TokenAt(s, i) : i \in TokenStarts(s)} : w \notin StopWords /\ Len(w) > 3}

(***************************************************************************)
(* C11: primary_keywords has at most 10 entries and no duplicates, holds   *)
(* only lowercased tokens of the text outside the stop-word set and longer *)
(* than 3, is ordered by non-increasing frequency, includes every eligible *)
(* token more frequent than an included one, and orders tokens of equal    *)
(* frequency by their first occurrence.                                    *)
(***************************************************************************)
PrimaryKeywordsMostFrequent ==
    pc = "analyzed" =>
        LET pk == analysis.ret.primary_keywords
            s == lower(text)
            eligible == EligibleTokens(s)
            \* frequency and first occurrence of each entry, computed once
            entry == [i \in 1..Len(pk) |->
                         [frequency |-> TokenFrequency(s, pk[i]),
                          first |-> FirstOccurrence(s, pk[i])]] \o <<>>
        IN  /\ analysis.exc = ""
            /\ Len(pk) <= 10
            /\ \A i, j \in 1..Len(pk) : i # j => pk[i] # pk[j]
            /\ \A i \in 1..Len(pk) : pk[i] \in eligible
            /\ \A i, j \in 1..Len(pk) :
                  i < j => /\ entry[i].frequency >= entry[j].frequency
                           /\ entry[i].frequency = entry[j].frequency
                                 => entry[i].first < entry[j].first
            /\ \A w \in eligible :
                  (\E i \in 1..Len(pk) : TokenFrequency(s, w) > entry[i].frequency)
                      => \E i \in 1..Len(pk) : pk[i] = w

ElevenWordsText ==
    Join(NineWords
         \o <<<<"Z", "e", "t", "a">>, <<"i", "o", "t", "a">>, <<"z", "e", "t", "a">>>>)

\* eleven eligible tokens: "zeta" twice comes first, "iota", the last of the
\* once-seen tokens, is cut
PrimaryKeywordsWitness ==
    /\ pc = "analyzed"
    /\ text = ElevenWordsText
    /\ Cardinality(EligibleTokens(lower(text))) = 11
    /\ Len(analysis.ret.primary_keywords) = 10
    /\ analysis.ret.primary_keywords[1] = <<"z", "e", "t", "a">>
    /\ analysis.ret.primary_keywords[2] = <<"a", "l", "p", "h", "a">>
    /\ analysis.ret.primary_keywords[10] = <<"o", "m", "e", "g", "a">>

(***************************************************************************)
(* _generate_suggestions.  A message is the text of its f-string with the  *)
(* values it interpolates.                                                 *)
(***************************************************************************)
Message(template, args) == [template |-> template, args |-> args]

IncreaseWordCount == "Increase word count to at least {min_word_count} words"

ReduceWordCount == "Consider reducing word count to under {max_word_count} words"

IncreaseKeyword == "Increase usage of keyword '{keyword}' (current: {density}%)"

ReduceKeyword == "Reduce keyword stuffing for '{keyword}' (current: {density}%)"

AddH1 == "Add a clear H1 heading"

AddH2 == "Add more H2 subheadings to improve structure"

SimplifyLanguage == "Simplify language to improve readability"

ShorterSentences == "Use shorter sentences for better readability"

VarySentences == "Vary sentence length for better flow"

WordCountSuggestions(an, self) ==
    IF an.word_count < self.min_word_count
    THEN <<Message(IncreaseWordCount, <<self.min_word_count>>)>>
    ELSE IF an.word_count > self.max_word_count
    THEN <<Message(ReduceWordCount, <<self.max_word_count>>)>>
    ELSE <<>>

RECURSIVE KeywordSuggestionsFromThree(_)
KeywordSuggestionsFromThree(kd) ==
    IF kd = <<>> THEN <<>>
    ELSE (IF Less(Head(kd).density, Rat(1, 1))
          THEN <<Message(IncreaseKeyword, <<Head(kd).keyword, Head(kd).density>>)>>
          ELSE IF Leq(Rat(3, 1), Head(kd).density)
          THEN <<Message(ReduceKeyword, <<Head(kd).keyword, Head(kd).density>>)>>
          ELSE <<>>)
         \o KeywordSuggestionsFromThree(Tail(kd))

\* for keyword, data in analysis['keyword_density'].items()
RECURSIVE KeywordSuggestions(_)
KeywordSuggestions(kd) ==
    IF kd = <<>> THEN <<>>
    ELSE (IF Less(Head(kd).density, Rat(1, 1))
          THEN <<Message(IncreaseKeyword, <<Head(kd).keyword, Head(kd).density>>)>>
          ELSE IF Less(Rat(3, 1), Head(kd).density)
          THEN <<Message(ReduceKeyword, <<Head(kd).keyword, Head(kd).density>>)>>
          ELSE <<>>)
         \o KeywordSuggestions(Tail(kd))

\* the heading messages with the H2 message below 4 H2s
HeadingSuggestionsBelowFour(an) ==
    LET heading_structure == an.heading_structure
    IN  (IF ~Get(heading_structure, "has_h1", FALSE)
         THEN <<Message(AddH1, <<>>)>> ELSE <<>>)
        \o (IF Get(heading_structure, "h2_count", 0) < 4
            THEN <<Message(AddH2, <<>>)>> ELSE <<>>)

HeadingSuggestions(an) ==
    LET heading_structure == an.heading_structure
    IN  (IF ~Get(heading_structure, "has_h1", FALSE)
         THEN <<Message(AddH1, <<>>)>> ELSE <<>>)
        \o (IF Get(heading_structure, "h2_count", 0) < 3
            THEN <<Message(AddH2, <<>>)>> ELSE <<>>)

ReadabilitySuggestions(an) ==
    IF Less(Get(an.readability, "flesch_score", Rat(0, 1)), Rat(40, 1))
    THEN <<Message(SimplifyLanguage, <<>>)>>
    ELSE <<>>

SentenceLengthSuggestions(an) ==
    LET avg_sentence_length == Get(an, "average_sentence_length", Rat(20, 1))
    IN  IF Less(Rat(25, 1), avg_sentence_length)
        THEN <<Message(ShorterSentences, <<>>)>>
        ELSE IF Less(avg_sentence_length, Rat(10, 1))
        THEN <<Message(VarySentences, <<>>)>>
        ELSE <<>>

SuggestionsHeadingsFirst(an, self) ==
    HeadingSuggestions(an) \o WordCountSuggestions(an, self)
    \o KeywordSuggestions(an.keyword_density)
    \o ReadabilitySuggestions(an) \o SentenceLengthSuggestions(an)

\* the appends to suggestions, in the order of the code
Suggestions(an, self) ==
    WordCountSuggestions(an, self) \o KeywordSuggestions(an.keyword_density)
    \o HeadingSuggestions(an) \o ReadabilitySuggestions(an)
    \o SentenceLengthSuggestions(an)

_generate_suggestions(an, self) ==
    IF ~(SubscriptedKeys \subseteq DOMAIN an)
    THEN [exc |-> "KeyError", ret |-> <<>>]
    ELSE [exc |-> "", ret |-> Suggestions(an, self)]

(***************************************************************************)
(* Inputs of the suggestion generator: analyses around every threshold it  *)
(* tests, and analyses lacking one field.                                  *)
(***************************************************************************)
SuggestionDensityValues ==
    {Rat(99, 100), Rat(100, 100), Rat(150, 100), Rat(300, 100), Rat(301, 100)}

SuggestionDensityMaps ==
    UNION {{[i \in 1..n |-> [keyword |-> KeywordName(i), count |-> 1, density |-> f[i]]] :
               f \in [1..n -> SuggestionDensityValues]} : n \in 0..MaxKeywords}

InitSuggest ==
    /\ pc = "analyzed"
    /\ optimizer \in Configs
    /\ text = <<>>
    /\ keywords = <<>>
    /\ analysis \in
         {[exc |-> "", ret |-> an] :
             an \in {full \in AnalysesOf(WordCounts, SuggestionDensityMaps,
                                          {hs \in HeadingStructures :
                                              /\ hs.proper_hierarchy
                                              /\ hs.h2_count >= 2},
                                          FleschValues, SentenceLengths) :
                        full.has_meta_description}}
         \cup {[exc |-> "", ret |-> Drop(an, {field})] :
                  an \in BaseAnalyses, field \in Fields}
    /\ result = NoResult
    /\ syllables = 0
    /\ suggestions = NoSuggestions
    /\ OthersIdle

\* optimized['seo_suggestions'] = self._generate_suggestions(analysis)
GenerateSuggestions ==
    /\ pc = "analyzed"
    /\ analysis.exc = ""
    /\ suggestions' = _generate_suggestions(analysis.ret, optimizer)
    /\ pc' = "suggested"
    /\ UNCHANGED <<optimizer, text, keywords, analysis, result, syllables>>
    /\ UNCHANGED others

NextSuggest == GenerateSuggestions

SpecSuggest == InitSuggest /\ [][NextSuggest]_vars

\* the messages of the list that carry one of the templates
Emitted(templates) ==
    {i \in 1..Len(suggestions.ret) : suggestions.ret[i].template \in templates}

\* the messages of the list about one keyword
EmittedFor(keyword) ==
    {i \in Emitted({IncreaseKeyword, ReduceKeyword}) :
        suggestions.ret[i].args[1] = keyword}

(***************************************************************************)
(* C12: the suggestions hold no message for a signal within its target     *)
(* range: none about the word count when min <= word_count <= max, none    *)
(* for a keyword whose density is in [1.5, 3.0], no "Add a clear H1        *)
(* heading" when has_h1 is true, no H2 message when h2_count >= 3, no      *)
(* readability message when flesch_score >= 60, no sentence-length message *)
(* when average_sentence_length is in [15, 20].                            *)
(***************************************************************************)
NoSuggestionInTargetRange ==
    (pc = "suggested" /\ suggestions.exc = "") =>
        LET an == analysis.ret
            hs == an.heading_structure
        IN  /\ (optimizer.min_word_count <= an.word_count
                /\ an.word_count <= optimizer.max_word_count)
                  => Emitted({IncreaseWordCount, ReduceWordCount}) = {}
            /\ \A i \in 1..Len(an.keyword_density) :
                  InBand(an.keyword_density[i].density, Rat(3, 2), Rat(3, 1))
                      => EmittedFor(an.keyword_density[i].keyword) = {}
            /\ (Present(hs, "has_h1") /\ hs.has_h1) => Emitted({AddH1}) = {}
            /\ (Present(hs, "h2_count") /\ hs.h2_count >= 3) => Emitted({AddH2}) = {}
            /\ (Present(an.readability, "flesch_score")
                /\ ~Less(an.readability.flesch_score, Rat(60, 1)))
                  => Emitted({SimplifyLanguage}) = {}
            /\ (Present(an, "average_sentence_length")
                /\ InBand(an.average_sentence_length, Rat(15, 1), Rat(20, 1)))
                  => Emitted({ShorterSentences, VarySentences}) = {}

\* every signal in its target range but the second keyword, at 3.01 next to
\* the first at 3.00: the one message is about the second keyword
NoSuggestionInTargetRangeWitness ==
    /\ pc = "suggested"
    /\ optimizer = DefaultConfig
    /\ SubscriptedKeys \cup {"average_sentence_length"} \subseteq DOMAIN analysis.ret
    /\ analysis.ret.word_count = 2500
    /\ Len(analysis.ret.keyword_density) = 2
    /\ analysis.ret.keyword_density[1].density = Rat(300, 100)
    /\ analysis.ret.keyword_density[2].density = Rat(301, 100)
    /\ DOMAIN analysis.ret.heading_structure = DOMAIN Headings(0, 0, 0)
    /\ analysis.ret.heading_structure.has_h1
    /\ analysis.ret.heading_structure.h2_count = 3
    /\ Present(analysis.ret.readability, "flesch_score")
    /\ analysis.ret.readability.flesch_score = Rat(60, 1)
    /\ analysis.ret.average_sentence_length = Rat(20, 1)
    /\ suggestions.ret
         = <<Message(ReduceKeyword, <<KeywordName(2), Rat(301, 100)>>)>>

\* the place of a message in the order of the checks
Rank(template) ==
    CASE template \in {IncreaseWordCount, ReduceWordCount} -> 1
      [] template \in {IncreaseKeyword, ReduceKeyword} -> 2
      [] template = AddH1 -> 3
      [] template = AddH2 -> 4
      [] template = SimplifyLanguage -> 5
      [] template \in {ShorterSentences, VarySentences} -> 6

\* the item of the density map a keyword message is about
ItemOf(message) ==
    CHOOSE i \in 1..Len(analysis.ret.keyword_density) :
        analysis.ret.keyword_density[i].keyword = message.args[1]

\* exactly one message with the template when expected, none otherwise
EmittedOnceIff(template, expected) ==
    Cardinality(Emitted({template})) = IF expected THEN 1 ELSE 0

(***************************************************************************)
(* C13: the checks are independent of each other and their messages come   *)
(* in a fixed order: at most one word-count message (too low if            *)
(* word_count < min, else too high if word_count > max); one message per   *)
(* keyword whose density is < 1.0 (increase) or > 3.0 (reduce stuffing),   *)
(* in the order of the density map; missing H1; fewer than 3 H2s;          *)
(* flesch < 40; at most one sentence-length message (too long if > 25,     *)
(* else too short if < 10).  A field the analysis lacks counts with the    *)
(* default the code reads for it.                                          *)
(***************************************************************************)
SuggestionsInFixedOrder ==
    (pc = "suggested" /\ suggestions.exc = "") =>
        LET an == analysis.ret
            kd == an.keyword_density
            list == suggestions.ret
            flesch_score == Get(an.readability, "flesch_score", Rat(0, 1))
            avg_sentence_length == Get(an, "average_sentence_length", Rat(20, 1))
        IN  /\ \A i, j \in 1..Len(list) :
                  i < j => Rank(list[i].template) <= Rank(list[j].template)
            /\ EmittedOnceIff(IncreaseWordCount, an.word_count < optimizer.min_word_count)
            /\ EmittedOnceIff(ReduceWordCount,
                              /\ an.word_count >= optimizer.min_word_count
                              /\ an.word_count > optimizer.max_word_count)
            /\ \A k \in 1..Len(kd) :
                  /\ Cardinality(EmittedFor(kd[k].keyword))
                       = IF InBand(kd[k].density, Rat(1, 1), Rat(3, 1)) THEN 0 ELSE 1
                  /\ \A i \in EmittedFor(kd[k].keyword) :
                        /\ list[i].template = IF Less(kd[k].density, Rat(1, 1))
                                              THEN IncreaseKeyword ELSE ReduceKeyword
                        /\ list[i].args = <<kd[k].keyword, kd[k].density>>
            /\ \A i, j \in Emitted({IncreaseKeyword, ReduceKeyword}) :
                  i < j => ItemOf(list[i]) < ItemOf(list[j])
            /\ EmittedOnceIff(AddH1, ~Get(an.heading_structure, "has_h1", FALSE))
            /\ EmittedOnceIff(AddH2, Get(an.heading_structure, "h2_count", 0) < 3)
            /\ EmittedOnceIff(SimplifyLanguage, Less(flesch_score, Rat(40, 1)))
            /\ EmittedOnceIff(ShorterSentences, Less(Rat(25, 1), avg_sentence_length))
            /\ EmittedOnceIff(VarySentences, Less(avg_sentence_length, Rat(10, 1)))

\* every check fires: a low word count under a minimum above the maximum,
\* both keywords, no H1, two H2s, flesch 39.99, sentences of 25.01 words
SuggestionsInFixedOrderWitness ==
    /\ pc = "suggested"
    /\ optimizer = [min_word_count |-> 2500, max_word_count |-> 800]
    /\ suggestions.ret
         = <<Message(IncreaseWordCount, <<2500>>),
             Message(ReduceKeyword, <<KeywordName(1), Rat(301, 100)>>),
             Message(IncreaseKeyword, <<KeywordName(2), Rat(99, 100)>>),
             Message(AddH1, <<>>),
             Message(AddH2, <<>>),
             Message(SimplifyLanguage, <<>>),
             Message(ShorterSentences, <<>>)>>

(***************************************************************************)
(* End to end: the text and keywords of test_analyze_seo, the sentence     *)
(* repeated up to MaxRepeats times, analysed and then given to the         *)
(* suggestion generator.                                                   *)
(***************************************************************************)
MaxRepeats == 50

\* "This is a test article about SEO optimization. "
TestSentence ==
    <<"T", "h", "i", "s", " ", "i", "s", " ", "a", " ", "t", "e", "s", "t", " ",
      "a", "r", "t", "i", "c", "l", "e", " ", "a", "b", "o", "u", "t", " ",
      "S", "E", "O", " ",
      "o", "p", "t", "i", "m", "i", "z", "a", "t", "i", "o", "n", ".", " ">>

\* s * n
Repeat(s, n) == [i \in 1..(n * Len(s)) |-> s[((i - 1) % Len(s)) + 1]]

Seo == <<"S", "E", "O">>

TestKeywords ==
    <<<<"t", "e", "s", "t">>, Seo,
      <<"o", "p", "t", "i", "m", "i", "z", "a", "t", "i", "o", "n">>>>

\* the configuration of TestSEOOptimizer.setUp
TestConfig == [min_word_count |-> 300, max_word_count |-> 2000]

InitEndToEnd ==
    /\ pc = "start"
    /\ optimizer = TestConfig
    /\ text \in {Repeat(TestSentence, n) : n \in 0..MaxRepeats}
    /\ keywords = TestKeywords
    /\ analysis = NoAnalysis
    /\ result = NoResult
    /\ syllables = 0
    /\ suggestions = NoSuggestions
    /\ OthersIdle

NextEndToEnd == AnalyzeSeo \/ GenerateSuggestions

SpecEndToEnd == InitEndToEnd /\ [][NextEndToEnd]_vars

Repeats == Len(text) \div Len(TestSentence)

\* the entry of the density map for "SEO"
SeoEntry ==
    analysis.ret.keyword_density[
        CHOOSE i \in 1..Len(analysis.ret.keyword_density) :
            analysis.ret.keyword_density[i].keyword = Seo]

(***************************************************************************)
(* C14 as stated: the sentence repeated 50 times has word_count 450, "SEO" *)
(* has count 50 and density 11.11 (50/450*100 rounded), and the            *)
(* suggestions hold the keyword-stuffing message for "SEO".                *)
(***************************************************************************)
EndToEndNineWords ==
    (pc = "suggested" /\ Repeats = 50) =>
        /\ analysis.ret.word_count = 450
        /\ SeoEntry.count = 50
        /\ RoundedToHundredths(SeoEntry.density, Rat(50 * 100, 450))
        /\ \E i \in 1..Len(suggestions.ret) :
              /\ suggestions.ret[i].template = ReduceKeyword
              /\ suggestions.ret[i].args[1] = Seo

(***************************************************************************)
(* C14 as amended: the sentence has 8 words, so repeated n times it has    *)
(* word_count 8n and "SEO" has count n and, for n > 0, density 12.5        *)
(* (n/8n*100), for which the suggestions hold the keyword-stuffing         *)
(* message; repeated 50 times: word_count 400, count 50, density 12.5.     *)
(***************************************************************************)
EndToEndEightWords ==
    pc = "suggested" =>
        /\ analysis.exc = ""
        /\ suggestions.exc = ""
        /\ analysis.ret.word_count = 8 * Repeats
        /\ SeoEntry.count = Repeats
        /\ Repeats > 0 =>
              /\ SeoEntry.density.n * 2 = 25 * SeoEntry.density.d
              /\ Cardinality({i \in 1..Len(suggestions.ret) :
                                 suggestions.ret[i]
                                   = Message(ReduceKeyword, <<Seo, SeoEntry.density>>)}) = 1

EndToEndWitness ==
    /\ pc = "suggested"
    /\ text = Repeat(TestSentence, 50)
    /\ analysis.ret.word_count = 400
    /\ SeoEntry.count = 50
    /\ SeoEntry.density = Rat(1250, 100)
    /\ suggestions.ret[2] = Message(ReduceKeyword, <<Seo, Rat(1250, 100)>>)

(***************************************************************************)
(* C15: an empty target keyword is skipped: keyword_density has no entry   *)
(* for the empty string.                                                   *)
(***************************************************************************)
EmptyKeywordSkipped ==
    (pc = "analyzed" /\ analysis.exc = "") =>
        \A i \in 1..Len(analysis.ret.keyword_density) :
            analysis.ret.keyword_density[i].keyword # <<>>

(***************************************************************************)
(* __init__: the optimizer is constructed from its config argument and     *)
(* then scores an analysis or generates its suggestions.                   *)
(***************************************************************************)
\* config.get(...) on None raises AttributeError
__init__(cfg) ==
    IF cfg.none
    THEN [exc |-> "AttributeError", ret |-> <<>>]
    ELSE [exc |-> "",
          ret |-> [config |-> cfg.dict,
                   target_keyword_density |-> Get(cfg.dict, "keyword_density", Rat(2, 100)),
                   min_word_count |-> Get(cfg.dict, "min_word_count", 800),
                   max_word_count |-> Get(cfg.dict, "max_word_count", 2500)]]

ConfigKeys == {"keyword_density", "min_word_count", "max_word_count"}

\* None, and the dicts holding any of the three keys
ConfigArguments ==
    {NoneConfig}
    \cup {DictConfig([k \in keys |->
                         CASE k = "min_word_count" -> min
                           [] k = "max_word_count" -> max
                           [] OTHER -> Rat(3, 100)]) :
             keys \in SUBSET ConfigKeys, min \in {300, 800}, max \in {2000, 2500}}

\* no optimizer yet
NoOptimizer == <<>>

InitConstruct ==
    /\ pc = "new"
    /\ optimizer = NoOptimizer
    /\ config \in ConfigArguments
    /\ log = <<>>
    /\ threads = <<>>
    /\ heap = <<>>
    /\ ProcessorIdle
    /\ text = <<>>
    /\ keywords = <<>>
    /\ analysis \in {[exc |-> "", ret |-> an] :
                        an \in AnalysesOf({299, 300, 799, 800, 2000, 2001, 2500, 2501},
                                          {<<>>}, {Headings(1, 3, 0)}, {Rat(60, 1)},
                                          {Rat(20, 1)})}
    /\ result = NoResult
    /\ syllables = 0
    /\ suggestions = NoSuggestions

\* optimizer = SEOOptimizer(config)
Construct ==
    /\ pc = "new"
    /\ LET constructed == __init__(config)
       IN  IF constructed.exc = ""
           THEN /\ optimizer' = constructed.ret
                /\ result' = result
                /\ pc' = "analyzed"
           ELSE /\ optimizer' = optimizer
                /\ result' = [exc |-> constructed.exc, ret |-> 0]
                /\ pc' = "raised"
    /\ UNCHANGED <<text, keywords, analysis, syllables, suggestions, config, log,
                   threads, heap, processor>>

NextConstruct == Construct \/ CalculateSeoScore \/ GenerateSuggestions

SpecConstruct == InitConstruct /\ [][NextConstruct]_vars

Lacks(cfg, key) == cfg.none \/ key \notin DOMAIN cfg.dict

(***************************************************************************)
(* C16: constructing the optimizer with no configuration (None) or with a  *)
(* configuration lacking min_word_count or max_word_count succeeds, and    *)
(* the threshold of a key that is lacking is its default, 800 or 2500.     *)
(***************************************************************************)
DefaultThresholds ==
    pc # "new" =>
        /\ pc # "raised"
        /\ Lacks(config, "min_word_count") => optimizer.min_word_count = 800
        /\ Lacks(config, "max_word_count") => optimizer.max_word_count = 2500

(***************************************************************************)
(* Calls repeated on one caller's objects: the caller prepares an          *)
(* optimizer, a text and its keywords, and calls analyze_seo,              *)
(* _calculate_seo_score and _generate_suggestions in any order, up to      *)
(* MaxCalls times; log records each call with the optimizer's fields, the  *)
(* arguments and the value returned.                                       *)
(***************************************************************************)
MaxCalls == 3

SessionTexts ==
    {<<"s", "e", "o">>,
     <<"S", "e", "o", " ", "t", "i", "p", "s", ".">>}

SessionKeywords == <<<<"s", "e", "o">>>>

InitSession ==
    /\ pc = "start"
    /\ optimizer \in Configs
    /\ text \in SessionTexts
    /\ keywords = SessionKeywords
    /\ analysis = NoAnalysis
    /\ result = NoResult
    /\ syllables = 0
    /\ suggestions = NoSuggestions
    /\ config = DictConfig(<<>>)
    /\ log = <<>>
    /\ threads = <<>>
    /\ heap = <<>>
    /\ ProcessorIdle

Call(op, self, arguments, returned) ==
    [op |-> op, self |-> self, arguments |-> arguments, returned |-> returned]

\* the caller turns to another optimizer and another text
Prepare ==
    /\ pc # "start"
    /\ Len(log) < MaxCalls
    /\ optimizer' \in Configs
    /\ text' \in SessionTexts
    /\ pc' = "start"
    /\ UNCHANGED <<keywords, analysis, result, syllables, suggestions, config, log,
                   threads, heap, processor>>

CallAnalyzeSeo ==
    /\ Len(log) < MaxCalls
    /\ analysis' = analyze_seo(text, keywords)
    /\ log' = Append(log, Call("analyze_seo", optimizer, <<text, keywords>>, analysis'))
    /\ pc' = "analyzed"
    /\ UNCHANGED <<optimizer, text, keywords, result, syllables, suggestions, config,
                   threads, heap, processor>>

CallCalculateSeoScoreRaisingMinimum ==
    /\ Len(log) < MaxCalls
    /\ analysis # NoAnalysis
    /\ analysis.exc = ""
    /\ result' = _calculate_seo_score(analysis.ret, optimizer)
    /\ log' = Append(log, Call("_calculate_seo_score", optimizer, analysis.ret, result'))
    /\ pc' = "scored"
    /\ optimizer' = [optimizer EXCEPT !.min_word_count = analysis.ret.word_count]
    /\ UNCHANGED <<text, keywords, analysis, syllables, suggestions, config,
                   threads, heap, processor>>

CallCalculateSeoScore ==
    /\ Len(log) < MaxCalls
    /\ analysis # NoAnalysis
    /\ analysis.exc = ""
    /\ result' = _calculate_seo_score(analysis.ret, optimizer)
    /\ log' = Append(log, Call("_calculate_seo_score", optimizer, analysis.ret, result'))
    /\ pc' = "scored"
    /\ UNCHANGED <<optimizer, text, keywords, analysis, syllables, suggestions, config,
                   threads, heap, processor>>

CallGenerateSuggestions ==
    /\ Len(log) < MaxCalls
    /\ analysis # NoAnalysis
    /\ analysis.exc = ""
    /\ suggestions' = _generate_suggestions(analysis.ret, optimizer)
    /\ log' = Append(log, Call("_generate_suggestions", optimizer, analysis.ret,
                               suggestions'))
    /\ pc' = "suggested"
    /\ UNCHANGED <<optimizer, text, keywords, analysis, result, syllables, config,
                   threads, heap, processor>>

NextSession ==
    \/ Prepare
    \/ CallAnalyzeSeo
    \/ CallCalculateSeoScore
    \/ CallGenerateSuggestions

SpecSession == InitSession /\ [][NextSession]_vars

\* two recorded calls of one operation with equal arguments on optimizers
\* with equal fields returned equal values
SameInputsSameResults ==
    \A i, j \in 1..Len(log) :
        (log[i].op = log[j].op /\ log[i].self = log[j].self
         /\ log[i].arguments = log[j].arguments)
            => log[i].returned = log[j].returned

\* a step that is a call leaves the optimizer's fields and the arguments of
\* the call as they were
CallLeavesInputs ==
    Len(log') > Len(log) =>
        /\ optimizer' = optimizer
        /\ text' = text
        /\ keywords' = keywords
        /\ log'[Len(log')].op # "analyze_seo" => analysis' = analysis

MaxThreads == 2

Threads == 1..MaxThreads

ThreadConfigs == {DictConfig(<<>>), DictConfig(TestConfig)}

InitThreads ==
    /\ pc = "running"
    /\ config \in ThreadConfigs
    /\ optimizer = __init__(config).ret
    /\ text = <<>>
    /\ keywords = SessionKeywords
    /\ analysis = NoAnalysis
    /\ result = NoResult
    /\ syllables = 0
    /\ suggestions = NoSuggestions
    /\ log = <<>>
    /\ heap = <<>>
    /\ ProcessorIdle
    /\ threads \in [Threads -> {[pc |-> "start", text |-> t, analysis |-> NoAnalysis,
                                 score |-> 0, result |-> 0, list |-> <<>>,
                                 suggestions |-> <<>>] : t \in SessionTexts}]

Shared == <<pc, optimizer, text, keywords, analysis, result, syllables, suggestions,
            config, log, heap, processor>>

\* analysis = self.analyze_seo(text_content, keywords)
ThreadAnalyze(t) ==
    /\ threads[t].pc = "start"
    /\ threads' = [threads EXCEPT ![t].analysis = analyze_seo(threads[t].text, keywords),
                                  ![t].pc = "analyzed"]
    /\ UNCHANGED Shared

ThreadScoreWordCountStoringMinimum(t) ==
    /\ threads[t].pc = "analyzed"
    /\ threads' = [threads EXCEPT
                      ![t].score = WordCountPoints(threads[t].analysis.ret, optimizer),
                      ![t].pc = "scoring"]
    /\ optimizer' = [optimizer EXCEPT
                        !.min_word_count = threads[t].analysis.ret.word_count]
    /\ UNCHANGED <<pc, text, keywords, analysis, result, syllables, suggestions,
                   config, log, heap, processor>>

\* _calculate_seo_score: score = 0, then the word count points
ThreadScoreWordCount(t) ==
    /\ threads[t].pc = "analyzed"
    /\ threads' = [threads EXCEPT
                      ![t].score = WordCountPoints(threads[t].analysis.ret, optimizer),
                      ![t].pc = "scoring"]
    /\ UNCHANGED Shared

\* _calculate_seo_score: the other points, and return min(score, max_score)
ThreadScoreRest(t) ==
    /\ threads[t].pc = "scoring"
    /\ LET an == threads[t].analysis.ret
       IN  threads' = [threads EXCEPT
                          ![t].result =
                              Min(threads[t].score + KeywordDensityPoints(an)
                                  + HeadingPoints(an) + ReadabilityPoints(an)
                                  + MetaPoints(an) + SentenceLengthPoints(an), 100),
                          ![t].pc = "scored"]
    /\ UNCHANGED Shared

\* _generate_suggestions: suggestions = [], then the word count suggestions
ThreadSuggestWordCount(t) ==
    /\ threads[t].pc = "scored"
    /\ threads' = [threads EXCEPT
                      ![t].list = WordCountSuggestions(threads[t].analysis.ret, optimizer),
                      ![t].pc = "suggesting"]
    /\ UNCHANGED Shared

\* _generate_suggestions: the other suggestions, and return suggestions
ThreadSuggestRest(t) ==
    /\ threads[t].pc = "suggesting"
    /\ LET an == threads[t].analysis.ret
       IN  threads' = [threads EXCEPT
                          ![t].suggestions =
                              threads[t].list \o KeywordSuggestions(an.keyword_density)
                              \o HeadingSuggestions(an) \o ReadabilitySuggestions(an)
                              \o SentenceLengthSuggestions(an),
                          ![t].pc = "done"]
    /\ UNCHANGED Shared

NextThreads ==
    \E t \in Threads :
        \/ ThreadAnalyze(t)
        \/ ThreadScoreWordCount(t)
        \/ ThreadScoreRest(t)
        \/ ThreadSuggestWordCount(t)
        \/ ThreadSuggestRest(t)

SpecThreads == InitThreads /\ [][NextThreads]_vars

\* what the calls of thread t return on an optimizer no other call runs on
Alone(t) ==
    LET self == __init__(config).ret
        an == analyze_seo(threads[t].text, keywords)
    IN  [analysis |-> an,
         result |-> _calculate_seo_score(an.ret, self).ret,
         suggestions |-> _generate_suggestions(an.ret, self).ret]

ResultsAsAlone ==
    \A t \in Threads :
        /\ threads[t].pc # "start" => threads[t].analysis = Alone(t).analysis
        /\ threads[t].pc \in {"scored", "suggesting", "done"}
              => threads[t].result = Alone(t).result
        /\ threads[t].pc = "done" => threads[t].suggestions = Alone(t).suggestions

\* a step writes the state of one call only, and not the optimizer
StepWritesOwnState ==
    /\ optimizer' = optimizer
    /\ \E t \in Threads : \A u \in Threads \ {t} : threads'[u] = threads[u]

(***************************************************************************)
(* C18: calls for independent articles running concurrently on one         *)
(* optimizer return, under every interleaving, what they return when run   *)
(* alone, and no call writes state that another call reads.                *)
(***************************************************************************)
ConcurrentCallsIndependent ==
    [](ResultsAsAlone) /\ [][StepWritesOwnState]_vars

\* thread 2 has finished on its own text while thread 1 is in the middle of
\* scoring another
ConcurrentCallsWitness ==
    /\ threads[1].pc = "scoring"
    /\ threads[2].pc = "done"
    /\ threads[1].text # threads[2].text
    /\ threads[2].result = 50
    /\ Len(threads[2].suggestions) = 5
    /\ threads[2].suggestions[1] = Message(IncreaseWordCount, <<optimizer.min_word_count>>)

(***************************************************************************)
(* optimize_article.  heap holds the dicts by identity: "article" and,     *)
(* when the article has one, "meta" are the caller's; the call allocates   *)
(* "optimized" and, for an article without meta, "optimized_meta".  The    *)
(* value of the key 'meta' is a reference [ref |-> id] to a dict of the    *)
(* heap.                                                                   *)
(***************************************************************************)
UpperChar(c) ==
    IF \E i \in 1..Len(Lowers) : Lowers[i] = c
    THEN Uppers[CHOOSE i \in 1..Len(Lowers) : Lowers[i] = c]
    ELSE c

IsLetter(c) == \E i \in 1..Len(Lowers) : Lowers[i] = c \/ Uppers[i] = c

\* s.title()
title(s) ==
    [i \in 1..Len(s) |->
        IF i = 1 \/ ~IsLetter(s[i - 1]) THEN UpperChar(s[i]) ELSE LowerChar(s[i])]

\* s[:n]
Prefix(s, n) == SubSeq(s, 1, Min(n, Len(s)))

\* s.strip()
strip(s) ==
    IF ~StripNonEmpty(s) THEN <<>>
    ELSE LET inked == {i \in 1..Len(s) : s[i] \notin Whitespace}
             first == CHOOSE i \in inked : \A j \in inked : i <= j
             last == CHOOSE i \in inked : \A j \in inked : j <= i
         IN  SubSeq(s, first, last)

\* sub in s
Contains(s, sub) ==
    \E i \in 1..(Len(s) - Len(sub) + 1) : SubSeq(s, i, i + Len(sub) - 1) = sub

\* s.replace(" ", "-")
ReplaceSpaces(s) == [i \in 1..Len(s) |-> IF s[i] = " " THEN "-" ELSE s[i]]

\* dict[key] = value
Put(dict, key, value) ==
    [k \in DOMAIN dict \cup {key} |-> IF k = key THEN value ELSE dict[k]]

\* item.values() of a step: its title, then its description
Values(item) ==
    (IF Present(item, "title") THEN <<item.title>> ELSE <<>>)
    \o (IF Present(item, "description") THEN <<item.description>> ELSE <<>>)

\* the text parts of the items of a list: the values of a dict, str of
\* anything else (an item that is a string is held as [str |-> string])
RECURSIVE ItemParts(_)
ItemParts(items) ==
    IF items = <<>> THEN <<>>
    ELSE (IF Head(items).is_dict THEN Values(Head(items).value)
          ELSE <<Head(items).value.str>>)
         \o ItemParts(Tail(items))

ListKeys == <<"benefits", "tips", "items", "steps">>

RECURSIVE ListParts(_, _)
ListParts(section, i) ==
    IF i > Len(ListKeys) THEN <<>>
    ELSE (IF Present(section, ListKeys[i]) THEN ItemParts(section[ListKeys[i]])
          ELSE <<>>)
         \o ListParts(section, i + 1)

_extract_section_text(section) ==
    Join((IF Present(section, "title") THEN <<section.title>> ELSE <<>>)
         \o (IF Present(section, "content") THEN <<section.content>> ELSE <<>>)
         \o (IF Present(section, "description") THEN <<section.description>> ELSE <<>>)
         \o ListParts(section, 1))

_extract_text(article) ==
    LET sections == Get(article, "content_sections", <<>>)
    IN  Join((IF Present(article, "title") THEN <<article.title>> ELSE <<>>)
             \o (IF Present(article, "intro") THEN <<article.intro>> ELSE <<>>)
             \o [i \in 1..Len(sections) |-> _extract_section_text(sections[i])]
             \o (IF Present(article, "conclusion") THEN <<article.conclusion>> ELSE <<>>)
             \o Get(article, "key_takeaways", <<>>))

_optimize_meta_description(title_, intro, primary) ==
    LET start == IF intro # <<>> THEN Prefix(intro, 150) ELSE Prefix(title_, 150)
        keyed == IF primary # <<>> /\ ~Contains(lower(start), lower(primary[1]))
                 THEN Prefix(title(primary[1]) \o <<":", " ">> \o start, 160)
                 ELSE start
        meta == strip(keyed)
    IN  IF Len(meta) > 160 THEN Prefix(meta, 157) \o <<".", ".", ".">> ELSE meta

\* article.get('meta', {}), the reference followed in the heap h
MetaOf(article, h) == IF Present(article, "meta") THEN h[article.meta.ref] ELSE <<>>

StepSections(article) ==
    IF Get(article, "template_type", "") = "how_to" /\ Present(article, "content_sections")
    THEN SelectSeq(article.content_sections,
                   LAMBDA section : /\ Get(section, "type", "") = "steps"
                                    /\ Present(section, "steps"))
    ELSE <<>>

\* step.get(...) of a step that is not a dict raises AttributeError
SchemaRaises(article) ==
    \E i \in 1..Len(StepSections(article)) :
        \E j \in 1..Len(StepSections(article)[i].steps) :
            ~StepSections(article)[i].steps[j].is_dict

\* the steps of the sections of type 'steps'
RECURSIVE SchemaSteps(_)
SchemaSteps(sections) ==
    IF sections = <<>> THEN <<>>
    ELSE [i \in 1..Len(Head(sections).steps) |->
             [type |-> "HowToStep",
              name |-> Get(Head(sections).steps[i].value, "title", <<>>),
              text |-> Get(Head(sections).steps[i].value, "description", <<>>)]]
         \o SchemaSteps(Tail(sections))

_generate_schema_markup(article, h, self) ==
    LET how_to == Get(article, "template_type", "") = "how_to"
        steps == SchemaSteps(StepSections(article))
        schema == [context |-> "https://schema.org",
                   type |-> IF how_to THEN "HowTo" ELSE "Article",
                   headline |-> Get(article, "title", <<>>),
                   description |-> Get(MetaOf(article, h), "description", <<>>),
                   datePublished |-> Get(article, "generated_at", <<>>),
                   dateModified |-> Get(article, "generated_at", <<>>),
                   organization |-> Get(self.config, "organization", "Your Company"),
                   logo_url |-> Get(self.config, "logo_url",
                                    "https://example.com/logo.png")]
    IN  IF steps # <<>> THEN Put(schema, "step", steps) ELSE schema

_suggest_internal_links(article, h) ==
    LET meta_keywords == Get(MetaOf(article, h), "keywords", <<>>)
        template_type == Get(article, "template_type", "")
    IN  (IF template_type = "how_to"
         THEN <<[anchor_text |-> "complete guide",
                 suggested_url |-> "/ultimate-guide-[topic]"]>>
         ELSE <<>>)
        \o (IF template_type = "comparison"
            THEN <<[anchor_text |-> "detailed review",
                    suggested_url |-> "/review-[product]"]>>
            ELSE <<>>)
        \o [i \in 1..Min(3, Len(meta_keywords)) |->
               [anchor_text |-> meta_keywords[i],
                suggested_url |-> <<"/">> \o lower(ReplaceSpaces(meta_keywords[i]))]]

\* the heap after optimize_article(article) and the values the call computed,
\* given the text extracted and its analysis
OptimizedWith(h, self, text_content, an) ==
    LET article == h["article"]
        meta_keywords == Get(MetaOf(article, h), "keywords", <<>>)
        \* optimized = article.copy(): the values and references of article
        meta_id == IF Present(article, "meta") THEN article.meta.ref
                   ELSE "optimized_meta"
        description == _optimize_meta_description(Get(article, "title", <<>>),
                                                  Get(article, "intro", <<>>),
                                                  an.ret.primary_keywords)
        written == Put(h, meta_id, Put(MetaOf(article, h), "description", description))
        score == _calculate_seo_score(an.ret, self)
        suggested == _generate_suggestions(an.ret, self)
        \* the copy with the keys the call assigns
        optimized ==
            [key \in DOMAIN article \cup {"meta", "schema_markup", "internal_links",
                                          "seo_score", "seo_suggestions"} |->
                CASE key = "meta" -> [ref |-> meta_id]
                  [] key = "schema_markup" -> _generate_schema_markup(article, written, self)
                  [] key = "internal_links" -> _suggest_internal_links(article, written)
                  [] key = "seo_score" -> score.ret
                  [] key = "seo_suggestions" -> suggested.ret
                  [] OTHER -> article[key]]
    IN  IF an.exc # ""
        THEN [exc |-> an.exc, text |-> text_content, keywords |-> meta_keywords,
              analysis |-> an, score |-> NoResult, suggestions |-> NoSuggestions,
              heap |-> h]
        ELSE IF SchemaRaises(article)
        THEN [exc |-> "AttributeError", text |-> text_content,
              keywords |-> meta_keywords, analysis |-> an, score |-> NoResult,
              suggestions |-> NoSuggestions, heap |-> written]
        ELSE [exc |-> "", text |-> text_content, keywords |-> meta_keywords,
              analysis |-> an, score |-> score, suggestions |-> suggested,
              heap |-> Put(written, "optimized", optimized)]

\* optimize_article(article): the text is extracted once and analysed once
optimize_article(h, self) ==
    LET meta_keywords == Get(MetaOf(h["article"], h), "keywords", <<>>)
        Analysed(text_content) ==
            {OptimizedWith(h, self, text_content, an) :
                an \in {analyze_seo(text_content, meta_keywords)}}
    IN  CHOOSE call \in UNION {Analysed(text_content) :
                                  text_content \in {_extract_text(h["article"])}} : TRUE

(***************************************************************************)
(* Articles: any of the keys optimize_article reads, present or absent.    *)
(***************************************************************************)
Chars(s) ==
    CASE s = "title" -> <<"S", "e", "o", " ", "o", "p", "t", "i", "m", "i", "z", "a",
                          "t", "i", "o", "n">>
      [] s = "intro" -> <<"L", "e", "a", "r", "n", " ", "s", "e", "o", ".">>
      [] s = "old" -> <<"O", "l", "d">>
      [] s = "tips" -> <<"s", "e", "o", " ", "t", "i", "p", "s">>
      [] s = "why" -> <<"W", "h", "y">>
      [] s = "because" -> <<"B", "e", "c", "a", "u", "s", "e", ".">>
      [] s = "done" -> <<"D", "o", "n", "e", ".">>
      [] s = "fast" -> <<"F", "a", "s", "t">>
      [] s = "2024" -> <<"2", "0", "2", "4">>

\* a dict holding key when the option, a sequence of at most one value, has one
Opt(key, option) == IF option = <<>> THEN <<>> ELSE [k \in {key} |-> option[1]]

Merge(d1, d2) ==
    [k \in DOMAIN d1 \cup DOMAIN d2 |-> IF k \in DOMAIN d2 THEN d2[k] ELSE d1[k]]

LongIntro == Repeat(<<"s", "e", "o", " ">>, 45)

TextSection == [title |-> Chars("why"), content |-> Chars("because")]

StepsSection ==
    [type |-> "steps",
     steps |-> <<[is_dict |-> TRUE,
                  value |-> [title |-> Chars("why"), description |-> Chars("because")]]>>]

\* a list of tips, one a string and one a dict
TipsSection ==
    [title |-> Chars("why"),
     tips |-> <<[is_dict |-> FALSE, value |-> [str |-> Chars("fast")]],
                [is_dict |-> TRUE, value |-> [description |-> Chars("because")]]>>]

\* steps that are plain strings
PlainStepsSection ==
    [type |-> "steps", steps |-> <<[is_dict |-> FALSE, value |-> [str |-> Chars("fast")]]>>]

Metas ==
    {<<>>} \cup
    {<<Merge(Opt("description", d), Opt("keywords", k))>> :
        d \in {<<>>, <<Chars("old")>>}, k \in {<<>>, <<<<Chars("tips")>>>>}}

Articles ==
    {[article |-> Merge(Opt("title", t),
                  Merge(Opt("intro", i),
                  Merge(Opt("template_type", tt),
                  Merge(Opt("content_sections", cs),
                  Merge(Opt("conclusion", end),
                  Merge(Opt("key_takeaways", IF end = <<>> THEN <<>>
                                             ELSE <<<<Chars("fast")>>>>),
                        IF m = <<>> THEN <<>>
                        ELSE [k \in {"meta"} |-> [ref |-> "meta"]])))))),
      meta |-> m] :
        t \in {<<>>, <<Chars("title")>>},
        i \in {<<>>, <<Chars("intro")>>, <<LongIntro>>},
        tt \in {<<>>, <<"how_to">>, <<"comparison">>},
        cs \in {<<>>, <<<<TextSection, TipsSection>>>>, <<<<StepsSection>>>>,
                <<<<PlainStepsSection>>>>},
        end \in {<<>>, <<Chars("done")>>},
        m \in Metas}

\* the caller's dicts
HeapOf(a) ==
    IF a.meta = <<>> THEN [id \in {"article"} |-> a.article]
    ELSE [id \in {"article", "meta"} |-> IF id = "article" THEN a.article ELSE a.meta[1]]

InitArticle ==
    /\ pc = "start"
    /\ config = DictConfig(<<>>)
    /\ optimizer = __init__(config).ret
    /\ heap \in {HeapOf(a) : a \in Articles}
    /\ text = <<>>
    /\ keywords = <<>>
    /\ analysis = NoAnalysis
    /\ result = NoResult
    /\ syllables = 0
    /\ suggestions = NoSuggestions
    /\ log = <<>>
    /\ threads = <<>>
    /\ ProcessorIdle

\* optimized = self.seo_optimizer.optimize_article(article)
OptimizeArticle ==
    /\ pc = "start"
    /\ \E call \in {optimize_article(heap, optimizer)} :
           /\ text' = call.text
           /\ keywords' = call.keywords
           /\ analysis' = call.analysis
           /\ result' = call.score
           /\ suggestions' = call.suggestions
           /\ heap' = call.heap
           /\ pc' = IF call.exc = "" THEN "optimized" ELSE call.exc
    /\ UNCHANGED <<optimizer, syllables, config, log, threads, processor>>

NextArticle == OptimizeArticle

SpecArticle == InitArticle /\ [][NextArticle]_vars

(***************************************************************************)
(* C19: optimize_article leaves the caller's article unchanged: after the  *)
(* call every key of the input article, the contents of its nested 'meta'  *)
(* dict included, has the value it had before the call, whether or not the *)
(* input had a 'meta' key.                                                 *)
(***************************************************************************)
CallerArticleUnchanged ==
    [][pc' # "start" => \A id \in DOMAIN heap : heap'[id] = heap[id]]_vars

(***************************************************************************)
(* The article generator and the batch processor.  A string is a sequence  *)
(* of characters; a dict of variables is the sequence of its items in      *)
(* insertion order, a value being an int or a str.                         *)
(***************************************************************************)
NumberKey ==
    <<"n", "u", "m", "b", "e", "r">>

YearKey ==
    <<"y", "e", "a", "r">>

ProductKey ==
    <<"p", "r", "o", "d", "u", "c", "t">>

Product1Key ==
    <<"p", "r", "o", "d", "u", "c", "t", "1">>

UseCaseKey ==
    <<"u", "s", "e", "_", "c", "a", "s", "e">>

ActionKey ==
    <<"a", "c", "t", "i", "o", "n">>

ListicleTitlePattern ==
    <<"{", "n", "u", "m", "b", "e", "r", "}", " ", "T", "e", "s", "t", " ",
      "A", "r", "t", "i", "c", "l", "e", "s">>

ListicleIntroPattern ==
    <<"T", "e", "s", "t", " ", "i", "n", "t", "r", "o">>

HowToTitlePattern ==
    <<"H", "o", "w", " ", "t", "o", " ", "{", "a", "c", "t", "i", "o", "n",
      "}", " ", "i", "n", " ", "{", "y", "e", "a", "r", "}">>

HowToIntroPattern ==
    <<"L", "e", "a", "r", "n", " ", "h", "o", "w", " ", "t", "o", " ", "{",
      "a", "c", "t", "i", "o", "n", "}", " ", "e", "f", "f", "e", "c", "t",
      "i", "v", "e", "l", "y", ".">>

ProductName ==
    <<"P", "r", "o", "d", "u", "c", "t">>

UseCaseName ==
    <<"t", "e", "s", "t", "i", "n", "g">>

GetStarted ==
    <<"g", "e", "t", " ", "s", "t", "a", "r", "t", "e", "d">>

Optimize ==
    <<"o", "p", "t", "i", "m", "i", "z", "e">>

Conclusion ==
    <<"I", "n", " ", "c", "o", "n", "c", "l", "u", "s", "i", "o", "n", ",",
      " ", "t", "h", "i", "s", " ", "i", "s", " ", "g", "r", "e", "a", "t",
      ".">>

KeyPoint1 ==
    <<"K", "e", "y", " ", "p", "o", "i", "n", "t", " ", "1">>

KeyPoint2 ==
    <<"K", "e", "y", " ", "p", "o", "i", "n", "t", " ", "2">>

ArticlePrefix ==
    <<"a", "r", "t", "i", "c", "l", "e", "_">>

DigitChars == <<"0", "1", "2", "3", "4", "5", "6", "7", "8", "9">>

\* str(n) of an int n >= 0
RECURSIVE str(_)
str(n) ==
    IF n < 10 THEN <<DigitChars[n + 1]>>
    ELSE str(n \div 10) \o <<DigitChars[(n % 10) + 1]>>

\* f"{n:04d}"
Format04d(n) ==
    [i \in 1..(4 - Len(str(n))) |-> "0"] \o str(n)

IntValue(n) == [is_int |-> TRUE, int |-> n, str |-> <<>>]

StrValue(s) == [is_int |-> FALSE, int |-> 0, str |-> s]

\* str(value)
StrOf(value) == IF value.is_int THEN str(value.int) ELSE value.str

Item(key, value) == [key |-> key, value |-> value]

\* s.replace(old, new), old not empty: the occurrences found from the left,
\* none overlapping another
RECURSIVE ReplaceFrom(_, _, _, _)
ReplaceFrom(s, old, new, i) ==
    IF i > Len(s) THEN <<>>
    ELSE IF i + Len(old) - 1 <= Len(s) /\ SubSeq(s, i, i + Len(old) - 1) = old
    THEN new \o ReplaceFrom(s, old, new, i + Len(old))
    ELSE <<s[i]>> \o ReplaceFrom(s, old, new, i + 1)

replace(s, old, new) == ReplaceFrom(s, old, new, 1)

\* f"{{{key}}}"
Placeholder(key) == <<"{">> \o key \o <<"}">>

\* for key, value in variables.items(): replace the placeholder of key, when
\* the pattern holds it, by str(value)
RECURSIVE Substitute(_, _)
Substitute(pattern, items) ==
    IF items = <<>> THEN pattern
    ELSE CHOOSE substituted \in
            {Substitute(replaced, Tail(items)) :
                replaced \in
                    {IF Contains(pattern, Placeholder(Head(items).key))
                     THEN replace(pattern, Placeholder(Head(items).key),
                                  StrOf(Head(items).value))
                     ELSE pattern}} : TRUE

(***************************************************************************)
(* The module random: a generator with a seed, modelled as the cycle of    *)
(* the values random() returns, in RandomScale-ths, and the position in    *)
(* the cycle.                                                              *)
(***************************************************************************)
RandomScale == 4

Generator(seed) == [seed |-> seed, position |-> 1]

Drawn(r) == r.seed[r.position]

Advanced(r) == [r EXCEPT !.position = (r.position % Len(r.seed)) + 1]

\* random.choice(seq)
choice(seq, r) ==
    IF seq = <<>> THEN [exc |-> "IndexError", ret |-> <<>>, random |-> r]
    ELSE [exc |-> "",
          ret |-> seq[(Drawn(r) * Len(seq)) \div RandomScale + 1],
          random |-> Advanced(r)]

\* the sum of the first i weights
RECURSIVE CumulativeWeight(_, _)
CumulativeWeight(weights, i) ==
    IF i = 0 THEN 0 ELSE CumulativeWeight(weights, i - 1) + weights[i].weight.n

\* random.choices(choices, weights=probabilities)[0]: bisect of
\* random() * total in the cumulative weights, the weights being
\* rationals of one denominator
choices(weights, r) ==
    IF weights = <<>> THEN [exc |-> "IndexError", ret |-> "", random |-> r]
    ELSE LET total == CumulativeWeight(weights, Len(weights))
             below == {i \in 1..(Len(weights) - 1) :
                          RandomScale * CumulativeWeight(weights, i)
                              <= Drawn(r) * total}
         IN  [exc |-> "",
              ret |-> weights[Cardinality(below) + 1].template,
              random |-> Advanced(r)]

(***************************************************************************)
(* ArticleGenerator                                                        *)
(***************************************************************************)
\* the config of the tests: their templates, pools and content blocks
GeneratorConfig ==
    [templates |->
        [listicle |-> [title_patterns |-> <<ListicleTitlePattern>>,
                       intro_patterns |-> <<ListicleIntroPattern>>],
         how_to |-> [title_patterns |-> <<HowToTitlePattern>>,
                     intro_patterns |-> <<HowToIntroPattern>>]],
     variable_pools |-> [products |-> <<ProductName>>,
                         use_cases |-> <<UseCaseName>>,
                         actions |-> <<GetStarted, Optimize>>],
     content_blocks |-> [conclusions |-> <<Conclusion>>,
                         takeaways |-> <<KeyPoint1, KeyPoint2>>]]

\* the patterns substituted, the template type looked up without the
\* membership test
GeneratePatternUnchecked(generator, template_type, variables, patterns, r) ==
    CHOOSE returned \in
        {IF chosen.exc # "" THEN chosen
         ELSE [exc |-> "", ret |-> Substitute(chosen.ret, variables),
               random |-> chosen.random] :
            chosen \in {choice(Get(Get(generator.templates, template_type, <<>>),
                                   patterns, <<>>), r)}} :
        TRUE

\* the patterns of a template, substituted; ValueError for a template type
\* that is not configured
GeneratePattern(generator, template_type, variables, patterns, r) ==
    IF ~Present(generator.templates, template_type)
    THEN [exc |-> "ValueError", ret |-> <<>>, random |-> r]
    ELSE CHOOSE returned \in
            {IF chosen.exc # "" THEN chosen
             ELSE [exc |-> "", ret |-> Substitute(chosen.ret, variables),
                   random |-> chosen.random] :
                chosen \in {choice(generator.templates[template_type][patterns], r)}} :
            TRUE

generate_title(generator, template_type, variables, r) ==
    GeneratePattern(generator, template_type, variables, "title_patterns", r)

generate_intro(generator, template_type, variables, r) ==
    GeneratePattern(generator, template_type, variables, "intro_patterns", r)

\* ArticleGenerator(config)
ArticleGenerator(cfg) == [config |-> cfg, templates |-> Get(cfg, "templates", <<>>)]

Sections(types) == [i \in 1..Len(types) |-> [type |-> types[i]]]

\* the sections of the content of a template type, each held as its type:
\* the texts of the sections are constants of the code
ContentSections(generator, template_type, variables, r) ==
    CASE template_type = "listicle" ->
             \* min(num_items, len(list_items)) items of the listicle_items of
             \* content_blocks
             LET number == SelectSeq(variables, LAMBDA item : item.key = NumberKey)
                 num_items == IF number = <<>> THEN 10 ELSE number[1].value.int
                 list_items == Get(Get(generator.config, "content_blocks", <<>>),
                                   "listicle_items", <<>>)
             IN  [ret |-> [i \in 1..Min(num_items, Len(list_items)) |->
                              [type |-> "list_item"]],
                  random |-> r]
      [] template_type = "how_to" ->
             [ret |-> Sections(<<"prerequisites", "steps", "tips">>), random |-> r]
      [] template_type = "comparison" ->
             [ret |-> Sections(<<"comparison_table", "analysis", "verdict">>),
              random |-> r]
      [] template_type = "ultimate_guide" ->
             [ret |-> Sections(<<"overview", "chapter", "chapter", "chapter",
                                 "resources">>),
              random |-> r]
      [] OTHER ->
             \* random.randint(3, 5) sections
             [ret |-> [i \in 1..(3 + (Drawn(r) * 3) \div RandomScale) |->
                          [type |-> "section"]],
              random |-> Advanced(r)]

\* generate_content, for a config whose content_blocks hold conclusions and
\* takeaways: the article of a title and an intro; its meta and generated_at,
\* which the batch processor does not read, are left out
generate_content(generator, template_type, title_, intro, variables, r) ==
    CHOOSE returned \in UNION {
        {IF conclusion.exc # ""
         THEN [exc |-> conclusion.exc, ret |-> <<>>, random |-> sections.random]
         ELSE [exc |-> "",
               ret |-> [title |-> title_,
                        intro |-> intro,
                        template_type |-> template_type,
                        content_sections |-> sections.ret,
                        conclusion |-> Substitute(conclusion.ret, variables),
                        key_takeaways |->
                            Prefix(generator.config.content_blocks.takeaways, 5)],
               random |-> conclusion.random] :
            conclusion \in
                {choice(generator.config.content_blocks.conclusions,
                        sections.random)}} :
        sections \in {ContentSections(generator, template_type, variables, r)}} : TRUE

(***************************************************************************)
(* BatchProcessor                                                          *)
(***************************************************************************)
\* datetime.now().year
Year == 2024

NumberChoices == <<5, 7, 10, 12, 15>>

\* one more item of the variables: a choice in a pool of the config, when the
\* config has the pool and the template type is the one the item is for
Pooled(generator, drawn, pool, key, wanted) ==
    IF drawn.exc = "" /\ wanted
       /\ Present(generator.config, "variable_pools")
       /\ Present(generator.config.variable_pools, pool)
    THEN CHOOSE returned \in
            {IF chosen.exc # ""
             THEN [exc |-> chosen.exc, ret |-> drawn.ret, random |-> chosen.random]
             ELSE [exc |-> "",
                   ret |-> Append(drawn.ret, Item(key, StrValue(chosen.ret))),
                   random |-> chosen.random] :
                chosen \in {choice(generator.config.variable_pools[pool],
                                   drawn.random)}} : TRUE
    ELSE drawn

\* variables['product1'] = pools['products'][0]
PrimaryProduct(generator, drawn) ==
    IF drawn.exc = ""
       /\ Present(generator.config, "variable_pools")
       /\ Present(generator.config.variable_pools, "products")
    THEN IF generator.config.variable_pools.products = <<>>
         THEN [drawn EXCEPT !.exc = "IndexError"]
         ELSE [drawn EXCEPT !.ret =
                  Append(@, Item(Product1Key,
                                 StrValue(generator.config.variable_pools.products[1])))]
    ELSE drawn

\* _generate_variables, for the pools products, use_cases and actions
_generate_variables(generator, template_type, r) ==
    CHOOSE returned \in UNION {UNION {UNION {UNION {
        {Pooled(generator, use_case, "actions", ActionKey, template_type = "how_to")} :
            use_case \in {Pooled(generator, product1, "use_cases", UseCaseKey, TRUE)}} :
            product1 \in {PrimaryProduct(generator, product)}} :
            product \in {Pooled(generator,
                                [exc |-> "",
                                 ret |-> <<Item(YearKey, IntValue(Year)),
                                           Item(NumberKey, IntValue(number.ret))>>,
                                 random |-> number.random],
                                "products", ProductKey, TRUE)}} :
            number \in {choice(NumberChoices, r)}} : TRUE

\* f"article_{i+1:04d}"
ArticleId(i) == ArticlePrefix \o Format04d(i + 1)

\* {k: v/total for k, v in distribution.items()}: ZeroDivisionError when total
\* is 0 and the distribution has an item
Normalized(distribution) ==
    LET total == SumSeq([i \in 1..Len(distribution) |-> distribution[i].weight])
    IN  [exc |-> IF distribution # <<>> /\ total = 0 THEN "ZeroDivisionError" ELSE "",
         ret |-> [i \in 1..Len(distribution) |->
                     [template |-> distribution[i].template,
                      weight |-> TrueDiv(distribution[i].weight, total)]]]

\* the specs from the i-th on
RECURSIVE SpecsFrom(_, _, _, _, _, _)
SpecsFrom(generator, i, count, normalized, r, specs) ==
    IF i >= count THEN [exc |-> "", ret |-> specs, random |-> r]
    ELSE CHOOSE returned \in UNION {
            {IF template_type.exc # ""
             THEN [exc |-> template_type.exc, ret |-> specs,
                   random |-> template_type.random]
             ELSE IF variables.exc # ""
             THEN [exc |-> variables.exc, ret |-> specs, random |-> variables.random]
             ELSE SpecsFrom(generator, i + 1, count, normalized, variables.random,
                            Append(specs, [id |-> ArticleId(i),
                                           template_type |-> template_type.ret,
                                           variables |-> variables.ret])) :
                variables \in {_generate_variables(generator, template_type.ret,
                                                   template_type.random)}} :
            template_type \in {choices(normalized, r)}} : TRUE

_generate_article_specs(generator, count, distribution, r) ==
    IF Normalized(distribution).exc # ""
    THEN [exc |-> Normalized(distribution).exc, ret |-> <<>>, random |-> r]
    ELSE SpecsFrom(generator, 0, count, Normalized(distribution).ret, r, <<>>)

AllowedChars ==
    {Lowers[i] : i \in 1..Len(Lowers)} \cup {DigitChars[i] : i \in 1..Len(DigitChars)}
    \cup {"-"}

IsAllowed(c) == c \in AllowedChars

\* while '--' in slug: slug = slug.replace('--', '-')
RECURSIVE CollapseHyphens(_)
CollapseHyphens(slug) ==
    IF Contains(slug, <<"-", "-">>)
    THEN CHOOSE collapsed \in
            {CollapseHyphens(replaced) :
                replaced \in {replace(slug, <<"-", "-">>, <<"-">>)}} : TRUE
    ELSE slug

\* slug.lstrip('-')
LeftStripHyphens(slug) ==
    LET kept == {i \in 1..Len(slug) : slug[i] # "-"}
    IN  IF kept = {} THEN <<>>
        ELSE SubSeq(slug, CHOOSE i \in kept : \A j \in kept : i <= j, Len(slug))

\* slug.strip('-')
StripHyphens(slug) ==
    LET kept == {i \in 1..Len(slug) : slug[i] # "-"}
    IN  IF kept = {} THEN <<>>
        ELSE SubSeq(slug, CHOOSE i \in kept : \A j \in kept : i <= j,
                          CHOOSE i \in kept : \A j \in kept : j <= i)

_generate_slug(title_) ==
    CHOOSE slug \in UNION {
        {StripHyphens(collapsed) : collapsed \in {CollapseHyphens(filtered)}} :
        filtered \in {SelectSeq(ReplaceSpaces(strip(lower(title_))), IsAllowed)}} : TRUE

\* _generate_single_article from the content on, the title and the intro
\* generated
ArticleOf(generator, spec, title_, intro, r) ==
    CHOOSE returned \in
        {IF content.exc # "" THEN content
         ELSE [content EXCEPT !.ret =
                  [key \in DOMAIN content.ret \cup {"id", "slug", "variables"} |->
                      CASE key = "id" -> spec.id
                        [] key = "slug" -> _generate_slug(title_)
                        [] key = "template_type" -> spec.template_type
                        [] key = "variables" -> spec.variables
                        [] OTHER -> content.ret[key]]] :
            content \in {generate_content(generator, spec.template_type, title_, intro,
                                          spec.variables, r)}} : TRUE

_generate_single_article(generator, spec, r) ==
    CHOOSE returned \in UNION {
        {IF title_.exc # "" THEN title_
         ELSE IF intro.exc # "" THEN intro
         ELSE ArticleOf(generator, spec, title_.ret, intro.ret, intro.random) :
            intro \in {IF title_.exc # "" THEN title_
                       ELSE generate_intro(generator, spec.template_type,
                                           spec.variables, title_.random)}} :
        title_ \in {generate_title(generator, spec.template_type, spec.variables, r)}} :
        TRUE

(***************************************************************************)
(* generate_batch.  pc is the position of the calling thread; batch holds  *)
(* the arguments of the call, the specs, the futures of the executor, the  *)
(* futures completed and not yet yielded by as_completed, the articles     *)
(* and the slugs the files are saved under.                                *)
(***************************************************************************)
MaxCount == 11

Counts == {0, 1, 2, MaxCount}

WorkerCounts == {1, 2}

Seeds == {<<0>>, <<3>>, <<1, 2>>, <<0, 3, 1>>}

Weight(template, weight) == [template |-> template, weight |-> weight]

\* the default distribution, in hundredths
DefaultDistribution ==
    <<Weight("listicle", 30), Weight("how_to", 25), Weight("comparison", 20),
      Weight("ultimate_guide", 15), Weight("location_based", 10)>>

NoDistribution == [none |-> TRUE, dict |-> <<>>]

Distribution(dict) == [none |-> FALSE, dict |-> dict]

Distributions ==
    {NoDistribution,
     Distribution(<<>>),
     Distribution(<<Weight("listicle", 1)>>),
     Distribution(<<Weight("listicle", 0)>>),
     Distribution(<<Weight("listicle", 3), Weight("how_to", 1)>>),
     Distribution(<<Weight("listicle", 1), Weight("location_based", 1)>>)}

\* the distribution of a call: the default one for None
DistributionOf(call) ==
    IF call.template_distribution.none THEN DefaultDistribution
    ELSE call.template_distribution.dict

TheGenerator == ArticleGenerator(GeneratorConfig)

\* a call whose tasks run on more than one worker
Concurrent(call) == call.parallel /\ call.count > 10 /\ call.max_workers > 1

\* the distributions and seeds of the calls that run on more than one worker
ConcurrentCalls ==
    {<<Distribution(<<Weight("listicle", 3), Weight("how_to", 1)>>), <<0>>>>,
     <<Distribution(<<Weight("listicle", 1), Weight("location_based", 1)>>), <<0, 3, 1>>>>}

\* a future submitted: no result, no exception
Future(state) == [state |-> state, result |-> <<>>, exc |-> ""]

InitBatch ==
    /\ pc = "start"
    /\ config = DictConfig(<<>>)
    /\ optimizer = __init__(config).ret
    /\ text = <<>>
    /\ keywords = <<>>
    /\ analysis = NoAnalysis
    /\ result = NoResult
    /\ syllables = 0
    /\ suggestions = NoSuggestions
    /\ log = <<>>
    /\ threads = <<>>
    /\ heap = <<>>
    /\ random \in {Generator(seed) : seed \in Seeds}
    /\ batch \in [count : Counts,
                  template_distribution : Distributions,
                  parallel : BOOLEAN,
                  max_workers : WorkerCounts,
                  article_specs : {<<>>},
                  futures : {<<>>},
                  completed : {<<>>},
                  articles : {<<>>},
                  errors : {<<>>},
                  saved : {{}}]
    /\ Concurrent(batch) => <<batch.template_distribution, random.seed>> \in ConcurrentCalls
    /\ gen = TheGenerator
    /\ invoked = <<>>

Analyzer == <<optimizer, text, keywords, analysis, result, syllables, suggestions,
              config, log, threads, heap, gen, invoked>>

\* generate_batch up to the choice between _generate_parallel, its futures
\* submitted, and _generate_sequential
GenerateBatch ==
    /\ pc = "start"
    /\ \E specs \in
           {_generate_article_specs(TheGenerator, batch.count, DistributionOf(batch),
                                    random)} :
           /\ random' = specs.random
           /\ IF specs.exc # ""
              THEN /\ pc' = specs.exc
                   /\ batch' = batch
              ELSE IF batch.parallel /\ batch.count > 10
              THEN /\ pc' = "parallel"
                   /\ batch' = [batch EXCEPT
                          !.article_specs = specs.ret,
                          !.futures = [i \in 1..Len(specs.ret) |-> Future("pending")]]
              ELSE /\ pc' = "sequential"
                   /\ batch' = [batch EXCEPT !.article_specs = specs.ret]
    /\ UNCHANGED Analyzer

\* _generate_sequential: the next spec
GenerateSequential ==
    /\ pc = "sequential"
    /\ Len(batch.articles) < Len(batch.article_specs)
    /\ \E article \in
           {_generate_single_article(TheGenerator,
                                     batch.article_specs[Len(batch.articles) + 1],
                                     random)} :
           /\ random' = article.random
           /\ IF article.exc # ""
              THEN /\ pc' = article.exc
                   /\ batch' = batch
              ELSE /\ pc' = pc
                   /\ batch' = [batch EXCEPT !.articles = Append(@, article.ret)]
    /\ UNCHANGED Analyzer

Running(futures) ==
    Cardinality({i \in 1..Len(futures) : futures[i].state = "running"})

\* a worker of the executor takes the first future of the queue
StartTask(i) ==
    /\ pc = "parallel"
    /\ i \in 1..Len(batch.futures)
    /\ batch.futures[i].state = "pending"
    /\ \A j \in 1..(i - 1) : batch.futures[j].state # "pending"
    /\ Running(batch.futures) < batch.max_workers
    /\ batch' = [batch EXCEPT !.futures[i].state = "running"]
    /\ UNCHANGED <<pc, random, Analyzer>>

\* the future of a task that raised
TaskRaised(i, exc) ==
    [batch EXCEPT !.futures[i].state = "raised",
                  !.futures[i].exc = exc,
                  !.completed = Append(@, i)]

\* _generate_single_article on a worker; the article is the result of the
\* future
RunTask(i) ==
    /\ pc = "parallel"
    /\ i \in 1..Len(batch.futures)
    /\ batch.futures[i].state = "running"
    /\ \E article \in
           {_generate_single_article(TheGenerator, batch.article_specs[i], random)} :
           /\ random' = article.random
           /\ batch' = IF article.exc # "" THEN TaskRaised(i, article.exc)
                       ELSE [batch EXCEPT !.futures[i].state = "done",
                                          !.futures[i].result = article.ret,
                                          !.completed = Append(@, i)]
    /\ UNCHANGED <<pc, Analyzer>>

\* for future in as_completed(future_to_spec): the next future completed; its
\* article is appended, or its exception printed
Collect ==
    /\ pc = "parallel"
    /\ batch.completed # <<>>
    /\ batch' = IF batch.futures[Head(batch.completed)].state = "done"
                THEN [batch EXCEPT
                         !.completed = Tail(@),
                         !.articles = Append(@, batch.futures[Head(batch.completed)].result)]
                ELSE [batch EXCEPT
                         !.completed = Tail(@),
                         !.errors = Append(@, batch.article_specs[Head(batch.completed)].id)]
    /\ UNCHANGED <<pc, random, Analyzer>>

\* _save_articles: the slugs the json and markdown files are saved under
_save_articles(articles) == {articles[i].slug : i \in 1..Len(articles)}

\* _generate_sequential returns; the articles are saved and returned
ReturnSequential ==
    /\ pc = "sequential"
    /\ Len(batch.articles) = Len(batch.article_specs)
    /\ pc' = "returned"
    /\ batch' = [batch EXCEPT !.saved = _save_articles(batch.articles)]
    /\ UNCHANGED <<random, Analyzer>>

\* a return as soon as no completed future
\* waits to be yielded
ReturnParallelEarly ==
    /\ pc = "parallel"
    /\ batch.completed = <<>>
    /\ pc' = "returned"
    /\ batch' = [batch EXCEPT !.saved = _save_articles(batch.articles)]
    /\ UNCHANGED <<random, Analyzer>>

\* as_completed has yielded every future and the executor is shut down:
\* _generate_parallel returns; the articles are saved and returned
ReturnParallel ==
    /\ pc = "parallel"
    /\ Len(batch.articles) + Len(batch.errors) = Len(batch.futures)
    /\ pc' = "returned"
    /\ batch' = [batch EXCEPT !.saved = _save_articles(batch.articles)]
    /\ UNCHANGED <<random, Analyzer>>

NextBatch ==
    \/ GenerateBatch
    \/ GenerateSequential
    \/ \E i \in 1..MaxCount : StartTask(i)
    \/ \E i \in 1..MaxCount : RunTask(i)
    \/ Collect
    \/ ReturnSequential
    \/ ReturnParallel

SpecBatch == InitBatch /\ [][NextBatch]_vars

NamesOnlyConfigured(call) ==
    \A i \in 1..Len(DistributionOf(call)) :
        Present(TheGenerator.templates, DistributionOf(call)[i].template)

\* the call is over: it returned or raised
Finished == pc \notin {"start", "sequential", "parallel"}

\* the list returned has count articles, each with a title and a slug, their
\* ids article_0001 to article_count
ReturnedCountArticles ==
    /\ pc = "returned"
    /\ Len(batch.articles) = batch.count
    /\ \A i \in 1..Len(batch.articles) :
           Present(batch.articles[i], "title") /\ Present(batch.articles[i], "slug")
    /\ \A k \in 1..batch.count :
           Cardinality({i \in 1..Len(batch.articles) :
                           batch.articles[i].id = ArticleId(k - 1)}) = 1

(***************************************************************************)
(* C20: for every count n >= 0 and every template distribution naming     *)
(* only configured templates, generate_batch returns a list of exactly n   *)
(* articles, each carrying 'title' and 'slug' and a distinct id            *)
(* article_0001..article_n, in sequential mode and in parallel mode        *)
(* (parallel=True with n > 10).                                            *)
(***************************************************************************)
BatchReturnsCountArticles ==
    Finished /\ NamesOnlyConfigured(batch) => ReturnedCountArticles

(***************************************************************************)
(* generate_title and generate_intro called on a generator: gen is the     *)
(* generator, invoked the call, its arguments and what it returned.        *)
(***************************************************************************)
BestTitlePattern ==
    <<"{", "n", "u", "m", "b", "e", "r", "}", " ", "B", "e", "s", "t", " ",
      "{", "p", "r", "o", "d", "u", "c", "t", "}", " ", "f", "o", "r", " ",
      "{", "u", "s", "e", "_", "c", "a", "s", "e", "}">>

BestIntroPattern ==
    <<"L", "o", "o", "k", "i", "n", "g", " ", "f", "o", "r", " ", "{", "p",
      "r", "o", "d", "u", "c", "t", "}", "?", " ", "H", "e", "r", "e", " ",
      "a", "r", "e", " ", "{", "n", "u", "m", "b", "e", "r", "}", " ", "o",
      "p", "t", "i", "o", "n", "s", ".">>

TestProduct ==
    <<"T", "e", "s", "t", " ", "P", "r", "o", "d", "u", "c", "t">>

\* the config of the tests of the generator
TestGeneratorConfig ==
    [templates |->
        [listicle |-> [title_patterns |-> <<BestTitlePattern>>,
                       intro_patterns |-> <<BestIntroPattern>>],
         how_to |-> [title_patterns |-> <<HowToTitlePattern>>,
                     intro_patterns |-> <<HowToIntroPattern>>]],
     variable_pools |-> [products |-> <<ProductName>>,
                         use_cases |-> <<UseCaseName>>,
                         actions |-> <<GetStarted, Optimize>>],
     content_blocks |-> [conclusions |-> <<Conclusion>>,
                         takeaways |-> <<KeyPoint1, KeyPoint2>>]]

\* configs: those of the tests, one of a template with two title patterns
\* and no intro pattern, one without templates
GenerateConfigs ==
    {TestGeneratorConfig,
     GeneratorConfig,
     [templates |->
         [listicle |-> [title_patterns |-> <<BestTitlePattern, ListicleTitlePattern>>,
                        intro_patterns |-> <<>>]]],
     [content_blocks |-> [conclusions |-> <<Conclusion>>,
                          takeaways |-> <<KeyPoint1, KeyPoint2>>]]}

TemplateTypes == {"listicle", "how_to", "comparison", "invalid_template", ""}

\* variables: none, those of the tests, and values that hold the text of a
\* placeholder, of a later key, of an earlier key, of their own key
VariableMaps ==
    {<<>>,
     <<Item(NumberKey, IntValue(5)), Item(ProductKey, StrValue(TestProduct)),
       Item(UseCaseKey, StrValue(UseCaseName)), Item(YearKey, IntValue(Year))>>,
     <<Item(NumberKey, IntValue(10)), Item(ProductKey, StrValue(TestProduct)),
       Item(ActionKey, StrValue(Optimize))>>,
     <<Item(ProductKey, StrValue(Placeholder(UseCaseKey))),
       Item(UseCaseKey, StrValue(UseCaseName))>>,
     <<Item(UseCaseKey, StrValue(UseCaseName)),
       Item(ProductKey, StrValue(Placeholder(UseCaseKey)))>>,
     <<Item(ProductKey, StrValue(Placeholder(ProductKey)))>>,
     <<Item(ActionKey, StrValue(Placeholder(YearKey))), Item(YearKey, IntValue(Year))>>}

NotReturned == [exc |-> "", ret |-> <<>>]

InitGenerate ==
    /\ pc = "start"
    /\ config = DictConfig(<<>>)
    /\ optimizer = __init__(config).ret
    /\ text = <<>>
    /\ keywords = <<>>
    /\ analysis = NoAnalysis
    /\ result = NoResult
    /\ syllables = 0
    /\ suggestions = NoSuggestions
    /\ log = <<>>
    /\ threads = <<>>
    /\ heap = <<>>
    /\ batch = <<>>
    /\ random \in {Generator(seed) : seed \in Seeds}
    /\ gen \in {ArticleGenerator(cfg) : cfg \in GenerateConfigs}
    /\ invoked \in [method : {"generate_title", "generate_intro"},
                    template_type : TemplateTypes,
                    variables : VariableMaps,
                    returned : {NotReturned}]

\* what a call leaves alone: the optimizer and the batch
Generating == <<optimizer, text, keywords, analysis, result, syllables, suggestions,
                config, log, threads, heap, batch>>

\* a call of generate_title or generate_intro returns or raises; the
\* generator is read, never assigned
Generated(returned) ==
    /\ pc' = IF returned.exc # "" THEN returned.exc ELSE "done"
    /\ invoked' = [invoked EXCEPT !.returned = [exc |-> returned.exc, ret |-> returned.ret]]
    /\ random' = returned.random
    /\ UNCHANGED gen
    /\ UNCHANGED Generating

GenerateTitle ==
    /\ pc = "start"
    /\ invoked.method = "generate_title"
    /\ \E returned \in {generate_title(gen, invoked.template_type, invoked.variables,
                                       random)} :
           Generated(returned)

GenerateIntro ==
    /\ pc = "start"
    /\ invoked.method = "generate_intro"
    /\ \E returned \in {generate_intro(gen, invoked.template_type, invoked.variables,
                                       random)} :
           Generated(returned)

NextGenerate ==
    \/ GenerateTitle
    \/ GenerateIntro

SpecGenerate == InitGenerate /\ [][NextGenerate]_vars

(***************************************************************************)
(* C21: generate_title and generate_intro raise ValueError exactly for the *)
(* template types that are not keys of the templates of the generator,     *)
(* whatever the variables, and the call leaves the generator (its config   *)
(* and its templates) as it was.                                           *)
(***************************************************************************)
UnknownTemplateRaisesValueError ==
    [][pc = "start" =>
          /\ (pc' = "ValueError" <=> ~Present(gen.templates, invoked.template_type))
          /\ (invoked'.returned.exc = "ValueError" <=> pc' = "ValueError")
          /\ gen' = gen
          /\ gen'.templates = Get(gen'.config, "templates", <<>>)]_vars

UnknownTemplateRaised ==
    /\ pc = "ValueError"
    /\ invoked.method = "generate_intro"
    /\ invoked.template_type = "invalid_template"
    /\ invoked.variables # <<>>
    /\ Present(gen.templates, "listicle")

\* the pattern with every placeholder of a key of the variables replaced by
\* str of the value of the key, in one pass from the left: the text put in
\* for a placeholder is not read again
RECURSIVE SubstitutedOnceFrom(_, _, _)
SubstitutedOnceFrom(pattern, items, i) ==
    IF i > Len(pattern) THEN <<>>
    ELSE LET placed == {k \in 1..Len(items) :
                           LET placeholder == Placeholder(items[k].key)
                           IN  /\ i + Len(placeholder) - 1 <= Len(pattern)
                               /\ SubSeq(pattern, i, i + Len(placeholder) - 1)
                                      = placeholder}
         IN  IF placed = {}
             THEN <<pattern[i]>> \o SubstitutedOnceFrom(pattern, items, i + 1)
             ELSE LET item == items[CHOOSE k \in placed : TRUE]
                  IN  StrOf(item.value)
                          \o SubstitutedOnceFrom(pattern, items,
                                                 i + Len(Placeholder(item.key)))

\* the pattern random.choice draws for the call, the generator of the
\* module random being at the first value of its cycle when the call starts
ChosenPattern ==
    choice(gen.templates[invoked.template_type]
               [IF invoked.method = "generate_title" THEN "title_patterns"
                ELSE "intro_patterns"],
           Generator(random.seed)).ret

(***************************************************************************)
(* C22 as stated: generate_title and generate_intro return the chosen      *)
(* pattern with each placeholder of a key of the variables replaced by str *)
(* of its value and every other placeholder left verbatim, the values put  *)
(* in not being substituted again.                                         *)
(***************************************************************************)
PlaceholdersSubstitutedOnce ==
    pc = "done" =>
        invoked.returned.ret = SubstitutedOnceFrom(ChosenPattern, invoked.variables, 1)

(***************************************************************************)
(* _generate_slug called on a title, then on the slug it returned.         *)
(***************************************************************************)
TestTitle ==
    <<"T", "e", "s", "t", " ", "A", "r", "t", "i", "c", "l", "e", " ", "T",
      "i", "t", "l", "e", "!">>

TestSlug ==
    <<"t", "e", "s", "t", "-", "a", "r", "t", "i", "c", "l", "e", "-", "t",
      "i", "t", "l", "e">>

MaxTitleLen == 4

TitleChars == {"a", "B", "1", " ", "-", "!", "\t"}

\* titles: every text of at most MaxTitleLen characters, the title of the
\* test, and titles with runs of hyphens and spaces
Titles ==
    UNION {[1..n -> TitleChars] : n \in 0..MaxTitleLen}
    \cup {TestTitle,
          <<"a", "-", "-", "-", "-", "b">>,
          <<" ", "A", " ", "-", " ", "-", "1", "!", " ">>}

InitSlug ==
    /\ pc = "start"
    /\ config = DictConfig(<<>>)
    /\ optimizer = __init__(config).ret
    /\ text = <<>>
    /\ keywords = <<>>
    /\ analysis = NoAnalysis
    /\ result = NoResult
    /\ syllables = 0
    /\ suggestions = NoSuggestions
    /\ log = <<>>
    /\ threads = <<>>
    /\ heap = <<>>
    /\ batch = <<>>
    /\ random = <<>>
    /\ gen = <<>>
    /\ invoked \in [title : Titles, slug : {<<>>}, again : {<<>>}]

\* slug = self._generate_slug(title)
GenerateSlug ==
    /\ pc = "start"
    /\ pc' = "done"
    /\ invoked' = [invoked EXCEPT !.slug = _generate_slug(invoked.title)]
    /\ UNCHANGED <<Generating, random, gen>>

\* self._generate_slug(slug)
GenerateSlugAgain ==
    /\ pc = "done"
    /\ pc' = "again"
    /\ invoked' = [invoked EXCEPT !.again = _generate_slug(invoked.slug)]
    /\ UNCHANGED <<Generating, random, gen>>

NextSlug ==
    \/ GenerateSlug
    \/ GenerateSlugAgain

SpecSlug == InitSlug /\ [][NextSlug]_vars

\* the maximal runs of the characters of s in kept, from the left
Runs(s, kept) ==
    LET starts == {i \in 1..Len(s) : s[i] \in kept /\ (i = 1 \/ s[i - 1] \notin kept)}
        start(k) == CHOOSE i \in starts : Cardinality({j \in starts : j < i}) = k - 1
        end(i) == CHOOSE j \in i..Len(s) :
                      /\ \A n \in i..j : s[n] \in kept
                      /\ j = Len(s) \/ s[j + 1] \notin kept
    IN  [k \in 1..Cardinality(starts) |-> SubSeq(s, start(k), end(start(k)))]

RECURSIVE Hyphenated(_)
Hyphenated(words) ==
    IF words = <<>> THEN <<>>
    ELSE IF Len(words) = 1 THEN Head(words)
    ELSE Head(words) \o <<"-">> \o Hyphenated(Tail(words))

Alphanumeric == AllowedChars \ {"-"}

\* only a-z, 0-9 and '-', no two hyphens in a row, none at either end
WellFormedSlug(slug) ==
    /\ \A i \in 1..Len(slug) : slug[i] \in AllowedChars
    /\ ~Contains(slug, <<"-", "-">>)
    /\ slug # <<>> => slug[1] # "-" /\ slug[Len(slug)] # "-"

(***************************************************************************)
(* C23 as stated: the slug is well formed, is the alphanumeric words of    *)
(* the lowercased title (its maximal runs of a-z and 0-9) joined by single *)
(* hyphens, and _generate_slug returns a slug unchanged.                   *)
(***************************************************************************)
SlugJoinsAlphanumericWords ==
    pc \in {"done", "again"} =>
        /\ WellFormedSlug(invoked.slug)
        /\ invoked.slug = Hyphenated(Runs(lower(invoked.title), Alphanumeric))
        /\ pc = "again" => invoked.again = invoked.slug

\* the lowercased title without the characters other than a-z, 0-9, ' '
\* and '-'
SlugChars(title_) ==
    SelectSeq(lower(title_), LAMBDA c : c \in AllowedChars \cup {" "})

(***************************************************************************)
(* C23, amended: the slug is well formed, is the lowercased title with     *)
(* every character other than a-z, 0-9, ' ' and '-' deleted, split at its  *)
(* runs of spaces and hyphens, the pieces joined by single hyphens, and    *)
(* _generate_slug returns a slug unchanged.                                *)
(***************************************************************************)
SlugJoinsPieces ==
    pc \in {"done", "again"} =>
        /\ WellFormedSlug(invoked.slug)
        /\ invoked.slug = Hyphenated(Runs(SlugChars(invoked.title), Alphanumeric))
        /\ pc = "again" => invoked.again = invoked.slug

SlugOfTestTitle ==
    /\ pc = "again"
    /\ invoked.title = TestTitle
    /\ invoked.slug = TestSlug
    /\ invoked.again = TestSlug

(***************************************************************************)
(* The two sentence counts of the analyzer.                                *)
(***************************************************************************)
\* the fragments between the runs of terminators that hold a word
SentencesOf(txt) ==
    SelectSeq(Runs(txt, {txt[i] : i \in 1..Len(txt)} \ Terminators), StripNonEmpty)

\* the fragments between the runs of terminators that hold only whitespace
BlankFragments(txt) ==
    SelectSeq(Runs(txt, {txt[i] : i \in 1..Len(txt)} \ Terminators),
              LAMBDA s : ~StripNonEmpty(s))

WordsOfSentences(txt) ==
    SumSeq([i \in 1..Len(SentencesOf(txt)) |->
               Cardinality(TokenStarts(SentencesOf(txt)[i]))])

EndsWithTerminator(txt) == txt # <<>> /\ txt[Len(txt)] \in Terminators

\* sentence_count and the divisor of the Flesch formula are the number of
\* runs of terminators plus one; average_sentence_length is the words of
\* the sentences over the number of sentences, 0 without a sentence
TwoSentenceCounts ==
    LET S == Cardinality(TerminatorRuns(text)) + 1
        W == analysis.ret.readability.word_count
        Y == analysis.ret.readability.syllable_count
    IN  /\ analysis.exc = ""
        /\ analysis.ret.readability.sentence_count = S
        /\ S >= 1
        /\ (W > 0 /\ RawFleschScaled(S, W, Y) > 0
                  /\ RawFleschScaled(S, W, Y) < 20000 * S * W)
              => analysis.ret.readability.flesch_score
                     = Rat(RawFleschScaled(S, W, Y), 200 * S * W)
        /\ analysis.ret.average_sentence_length
               = IF SentencesOf(text) = <<>> THEN Rat(0, 1)
                 ELSE Rat(WordsOfSentences(text), Len(SentencesOf(text)))

(***************************************************************************)
(* C24 as stated: sentence_count and the Flesch divisor are the raw number *)
(* of fragments, at least 1 and one more than the number of sentences when *)
(* the text ends with a terminator; average_sentence_length is the words   *)
(* of the non-empty stripped fragments over their number, 0 without any.   *)
(***************************************************************************)
SentenceCountOneMoreAtTerminator ==
    pc = "analyzed" =>
        /\ TwoSentenceCounts
        /\ EndsWithTerminator(text)
              => analysis.ret.readability.sentence_count = Len(SentencesOf(text)) + 1

(***************************************************************************)
(* C24, amended: sentence_count and the Flesch divisor are the raw number  *)
(* of fragments, at least 1 and never below the number of sentences; it is *)
(* one more than the number of sentences when the text ends with a         *)
(* terminator, does not start with one and has no fragment of whitespace   *)
(* only; average_sentence_length is the words of the non-empty stripped    *)
(* fragments over their number, 0 without any.                             *)
(***************************************************************************)
SentenceCountsDistinct ==
    pc = "analyzed" =>
        /\ TwoSentenceCounts
        /\ analysis.ret.readability.sentence_count >= Len(SentencesOf(text))
        /\ (/\ EndsWithTerminator(text)
            /\ text[1] \notin Terminators
            /\ BlankFragments(text) = <<>>)
              => analysis.ret.readability.sentence_count = Len(SentencesOf(text)) + 1

\* "a b.": two fragments, one sentence of two words
SentenceCountsDiffer ==
    /\ pc = "analyzed"
    /\ text = <<"a", " ", "b", ".">>
    /\ analysis.ret.readability.sentence_count = 2
    /\ analysis.ret.average_sentence_length = Rat(2, 1)

(***************************************************************************)
(* The scorer and the suggestion generator called on one analysis, as      *)
(* optimize_article calls them.                                            *)
(***************************************************************************)
\* optimized['seo_suggestions'] = self._generate_suggestions(analysis), the
\* score calculated
SuggestAfterScore ==
    /\ pc = "scored"
    /\ result.exc = ""
    /\ suggestions' = _generate_suggestions(analysis.ret, optimizer)
    /\ pc' = "suggested"
    /\ UNCHANGED <<optimizer, text, keywords, analysis, result, syllables>>
    /\ UNCHANGED others

NextAgree ==
    \/ CalculateSeoScore
    \/ SuggestAfterScore

SpecAgree == InitSuggest /\ [][NextAgree]_vars

\* the items of the density map in the ideal band of the scorer
IdealItems ==
    {i \in 1..Len(analysis.ret.keyword_density) :
        InBand(analysis.ret.keyword_density[i].density, Rat(3, 2), Rat(3, 1))}

(***************************************************************************)
(* C25: when _calculate_seo_score returns 100, _generate_suggestions emits *)
(* on the same analysis no word-count, H1, H2, readability or              *)
(* sentence-length message: every message is a keyword message about a     *)
(* keyword whose density is outside the ideal band, and a keyword inside   *)
(* the band exists and has no message.                                     *)
(***************************************************************************)
FullScoreOnlyKeywordSuggestions ==
    (pc = "suggested" /\ result.ret = 100) =>
        /\ suggestions.exc = ""
        /\ Emitted({IncreaseWordCount, ReduceWordCount, AddH1, AddH2, SimplifyLanguage,
                    ShorterSentences, VarySentences}) = {}
        /\ \A i \in 1..Len(suggestions.ret) :
              /\ suggestions.ret[i].template \in {IncreaseKeyword, ReduceKeyword}
              /\ ItemOf(suggestions.ret[i]) \notin IdealItems
        /\ IdealItems # {}
        /\ \A i \in IdealItems :
              EmittedFor(analysis.ret.keyword_density[i].keyword) = {}

\* a score of 100 with one keyword at 1.5 and a message about the other, at
\* 3.01
FullScoreWithKeywordSuggestion ==
    /\ pc = "suggested"
    /\ result.ret = 100
    /\ Len(analysis.ret.keyword_density) = 2
    /\ analysis.ret.keyword_density[1].density = Rat(150, 100)
    /\ suggestions.ret
         = <<Message(ReduceKeyword, <<KeywordName(2), Rat(301, 100)>>)>>

(***************************************************************************)
(* The parallel mode of generate_batch.                                    *)
(***************************************************************************)
\* the call takes _generate_parallel
ParallelMode == batch.parallel /\ batch.count > 10

\* the articles of the list returned that were generated from spec i
ArticlesOf(i) ==
    {a \in 1..Len(batch.articles) : batch.articles[a].id = batch.article_specs[i].id}

\* _generate_single_article succeeds on a spec when its template type is
\* configured
Configured(spec) == Present(TheGenerator.templates, spec.template_type)

(***************************************************************************)
(* C26: in parallel mode, whatever the interleaving of the workers,        *)
(* nothing is saved before generate_batch returns, and it returns only     *)
(* when every task submitted has completed or raised; the list returned    *)
(* and saved holds one article for each spec whose generation succeeded,   *)
(* none for a spec whose generation raised, and no article twice.          *)
(***************************************************************************)
ParallelReturnsEverySuccess ==
    /\ pc = "parallel" => batch.saved = {}
    /\ (pc = "returned" /\ ParallelMode) =>
          /\ Len(batch.futures) = batch.count
          /\ \A i \in 1..Len(batch.futures) :
                /\ batch.futures[i].state \in {"done", "raised"}
                /\ batch.futures[i].state = "done" <=> Configured(batch.article_specs[i])
                /\ batch.futures[i].state = "done" =>
                      /\ Cardinality(ArticlesOf(i)) = 1
                      /\ \A a \in ArticlesOf(i) :
                            batch.articles[a] = batch.futures[i].result
                /\ batch.futures[i].state = "raised" => ArticlesOf(i) = {}
          /\ Len(batch.articles)
                 = Cardinality({i \in 1..Len(batch.futures) :
                                   batch.futures[i].state = "done"})
          /\ batch.saved = _save_articles(batch.articles)

\* two workers: tasks raised, tasks succeeded, and an article of a later
\* spec stands in the list before one of an earlier spec
ParallelReturnedOutOfOrder ==
    /\ pc = "returned"
    /\ ParallelMode
    /\ batch.max_workers = 2
    /\ batch.errors # <<>>
    /\ \E i, j \in 1..Len(batch.futures) :
          /\ i < j
          /\ \E a \in ArticlesOf(i), b \in ArticlesOf(j) : b < a

(***************************************************************************)
(* C27: has_meta_description of the analysis is true exactly when the text *)
(* analysed is not empty, whether or not the article has a meta            *)
(* description; so optimize_article gives the 10 points of the meta        *)
(* description to every article whose extracted text is not empty and to   *)
(* no article whose extracted text is empty.                               *)
(***************************************************************************)
MetaPointsFollowText ==
    pc = "optimized" =>
        LET an == analysis.ret
        IN  /\ an.has_meta_description <=> text # <<>>
            /\ result.exc = ""
            /\ result.ret
                   = Min(WordCountPoints(an, optimizer) + KeywordDensityPoints(an)
                         + HeadingPoints(an) + ReadabilityPoints(an)
                         + (IF text # <<>> THEN 10 ELSE 0)
                         + SentenceLengthPoints(an), 100)

\* an article without meta whose text is not empty: the 10 points are given
MetaPointsWithoutMeta ==
    /\ pc = "optimized"
    /\ ~Present(heap["article"], "meta")
    /\ text # <<>>
    /\ analysis.ret.has_meta_description
    /\ result.ret >= 10

\* an article with a meta description and no text: no point given
NoMetaPointsWithMeta ==
    /\ pc = "optimized"
    /\ Present(heap["article"], "meta")
    /\ text = <<>>
    /\ ~analysis.ret.has_meta_description

(***************************************************************************)
(* C28 as stated: in the record optimize_article returns, the description  *)
(* of schema_markup is the description of the optimized meta of that       *)
(* record, whether or not the article given had a 'meta' key.              *)
(***************************************************************************)
SchemaDescriptionIsMetaDescription ==
    pc = "optimized" =>
        heap["optimized"].schema_markup.description
            = heap[heap["optimized"].meta.ref].description

(***************************************************************************)
(* The HTML converter.  _convert_lists and _convert_tables go through the  *)
(* lines of a text; invoked holds the text, its lines, the number of lines *)
(* gone through, the locals of the loop and what the call returned.        *)
(***************************************************************************)
UlOpen ==
    <<"<", "u", "l", ">">>

UlClose ==
    <<"<", "/", "u", "l", ">">>

OlOpen ==
    <<"<", "o", "l", ">">>

OlClose ==
    <<"<", "/", "o", "l", ">">>

LiOpen ==
    <<" ", " ", "<", "l", "i", ">">>

LiClose ==
    <<"<", "/", "l", "i", ">">>

BulletLine ==
    <<"-", " ", "a">>

StarLine ==
    <<"*", " ", "b">>

NumberedLine ==
    <<"1", ".", " ", "c">>

IndentedBulletLine ==
    <<" ", "-", " ", "d">>

TextLine ==
    <<"x">>

\* '\n'.join(lines)
RECURSIVE JoinLines(_)
JoinLines(lines) ==
    IF lines = <<>> THEN <<>>
    ELSE IF Len(lines) = 1 THEN Head(lines)
    ELSE Head(lines) \o <<"\n">> \o JoinLines(Tail(lines))

\* the length of the match of r'^\d+\. ' in s, 0 without a match
NumberedPrefix(s) ==
    LET digits == {n \in 1..Len(s) :
                      \A i \in 1..n : \E d \in 1..Len(DigitChars) : s[i] = DigitChars[d]}
        n == Cardinality(digits)
    IN  IF n > 0 /\ Len(s) >= n + 2 /\ s[n + 1] = "." /\ s[n + 2] = " "
        THEN n + 2 ELSE 0

\* f'  <li>{item}</li>'
ListItem(item) == LiOpen \o item \o LiClose

\* s[n:]
From(s, n) == SubSeq(s, n + 1, Len(s))

\* the closing tag _convert_lists appends: '</ol>' when '<ol>' is anywhere
\* in result
ClosingTag(result_) ==
    IF \E k \in 1..Len(result_) : result_[k] = OlOpen THEN OlClose ELSE UlClose

\* the body of the loop of _convert_lists on a line
ListsLine(result_, in_list, line) ==
    LET stripped == strip(line)
        opened(tag) == IF ~in_list THEN Append(result_, tag) ELSE result_
    IN  IF startswith(stripped, <<"-", " ">>) \/ startswith(stripped, <<"*", " ">>)
        THEN [result |-> Append(opened(UlOpen), ListItem(From(stripped, 2))),
              in_list |-> TRUE]
        ELSE IF NumberedPrefix(stripped) > 0
        THEN LET reopened ==
                     IF in_list /\ result_[Len(result_)] = UlClose
                     THEN Append(SubSeq(result_, 1, Len(result_) - 1), OlClose)
                     ELSE result_
             IN  [result |->
                      Append(IF ~in_list THEN Append(reopened, OlOpen) ELSE reopened,
                             ListItem(From(stripped, NumberedPrefix(stripped)))),
                  in_list |-> TRUE]
        ELSE [result |->
                  Append(IF in_list THEN Append(result_, ClosingTag(result_))
                         ELSE result_,
                         line),
              in_list |-> FALSE]

MaxListLines == 4

ListLines == {BulletLine, StarLine, NumberedLine, IndentedBulletLine, TextLine, <<>>}

Texts(lines, n) == UNION {{JoinLines(ls) : ls \in [1..k -> lines]} : k \in 1..n}

InitConvert(method, texts) ==
    /\ pc = "start"
    /\ config = DictConfig(<<>>)
    /\ optimizer = __init__(config).ret
    /\ text = <<>>
    /\ keywords = <<>>
    /\ analysis = NoAnalysis
    /\ result = NoResult
    /\ syllables = 0
    /\ suggestions = NoSuggestions
    /\ log = <<>>
    /\ threads = <<>>
    /\ heap = <<>>
    /\ batch = <<>>
    /\ random = <<>>
    /\ gen = <<>>
    /\ invoked \in [method : {method},
                    text : texts,
                    lines : {<<>>},
                    line : {0},
                    result : {<<>>},
                    in_list : {FALSE},
                    in_table : {FALSE},
                    table_lines : {<<>>},
                    returned : {<<>>}]

InitLists == InitConvert("_convert_lists", Texts(ListLines, MaxListLines))

\* lines = text.split('\n'); result = []; in_list = False
ConvertLists ==
    /\ pc = "start"
    /\ invoked.method = "_convert_lists"
    /\ pc' = "lines"
    /\ invoked' = [invoked EXCEPT !.lines = split_lines(invoked.text)]
    /\ UNCHANGED <<Generating, random, gen>>

\* for line in lines: the next line
ConvertListsLine ==
    /\ pc = "lines"
    /\ invoked.method = "_convert_lists"
    /\ invoked.line < Len(invoked.lines)
    /\ \E step \in {ListsLine(invoked.result, invoked.in_list,
                              invoked.lines[invoked.line + 1])} :
           invoked' = [invoked EXCEPT !.line = @ + 1,
                                      !.result = step.result,
                                      !.in_list = step.in_list]
    /\ UNCHANGED <<pc, Generating, random, gen>>

\* after the loop: the list still open is closed; return '\n'.join(result)
ConvertListsReturn ==
    /\ pc = "lines"
    /\ invoked.method = "_convert_lists"
    /\ invoked.line = Len(invoked.lines)
    /\ pc' = "done"
    /\ \E closed \in {IF invoked.in_list
                      THEN Append(invoked.result, ClosingTag(invoked.result))
                      ELSE invoked.result} :
           invoked' = [invoked EXCEPT !.result = closed,
                                      !.returned = JoinLines(closed)]
    /\ UNCHANGED <<Generating, random, gen>>

NextLists ==
    \/ ConvertLists
    \/ ConvertListsLine
    \/ ConvertListsReturn

SpecLists == InitLists /\ [][NextLists]_vars

\* the list tags among the lines of the output, in their order
ListTags(lines) ==
    SelectSeq(lines, LAMBDA l : l \in {UlOpen, UlClose, OlOpen, OlClose})

IsListItem(l) == startswith(l, LiOpen)

(***************************************************************************)
(* C29 as stated: the output of _convert_lists is well nested: the list    *)
(* tags come in pairs of <ul> with </ul> or <ol> with </ol>, so that the   *)
(* opening tags are as many as the closing ones; every item stands inside  *)
(* a pair, and every other line outside, the list closed before it; no     *)
(* list is open at the end of the output.                                  *)
(***************************************************************************)
ListsWellNested ==
    pc = "done" /\ invoked.method = "_convert_lists" =>
        LET out == invoked.result
            tags == ListTags(out)
        IN  /\ invoked.returned = JoinLines(out)
            /\ Len(tags) % 2 = 0
            /\ \A k \in 1..Len(tags) :
                  k % 2 = 1 => \/ tags[k] = UlOpen /\ tags[k + 1] = UlClose
                               \/ tags[k] = OlOpen /\ tags[k + 1] = OlClose
            /\ \A k \in 1..Len(out) :
                  out[k] \notin {UlOpen, UlClose, OlOpen, OlClose} =>
                      (IsListItem(out[k])
                          <=> Len(ListTags(SubSeq(out, 1, k))) % 2 = 1)

(***************************************************************************)
(* _convert_tables and _parse_table.                                       *)
(***************************************************************************)
TableOpen ==
    <<"<", "t", "a", "b", "l", "e", ">", "\n">>

TheadOpen ==
    <<" ", " ", "<", "t", "h", "e", "a", "d", ">", "\n", " ", " ", " ", " ",
      "<", "t", "r", ">", "\n">>

ThOpen ==
    <<" ", " ", " ", " ", " ", " ", "<", "t", "h", ">">>

ThClose ==
    <<"<", "/", "t", "h", ">", "\n">>

TheadClose ==
    <<" ", " ", " ", " ", "<", "/", "t", "r", ">", "\n", " ", " ", "<", "/",
      "t", "h", "e", "a", "d", ">", "\n">>

TbodyOpen ==
    <<" ", " ", "<", "t", "b", "o", "d", "y", ">", "\n">>

TrOpen ==
    <<" ", " ", " ", " ", "<", "t", "r", ">", "\n">>

TdOpen ==
    <<" ", " ", " ", " ", " ", " ", "<", "t", "d", ">">>

TdClose ==
    <<"<", "/", "t", "d", ">", "\n">>

TrClose ==
    <<" ", " ", " ", " ", "<", "/", "t", "r", ">", "\n">>

TbodyClose ==
    <<" ", " ", "<", "/", "t", "b", "o", "d", "y", ">", "\n">>

TableClose ==
    <<"<", "/", "t", "a", "b", "l", "e", ">">>

HeaderRow ==
    <<"a", "|", "b">>

SeparatorRow ==
    <<"-", "|", "-">>

BodyRow ==
    <<"|", "c", " ", "|", "d", "|">>

\* '|' in line
HasPipe(line) == \E i \in 1..Len(line) : line[i] = "|"

\* s.strip('|')
StripPipes(s) ==
    LET kept == {i \in 1..Len(s) : s[i] # "|"}
    IN  IF kept = {} THEN <<>>
        ELSE SubSeq(s, CHOOSE i \in kept : \A j \in kept : i <= j,
                       CHOOSE i \in kept : \A j \in kept : j <= i)

\* s.split('|')
split_pipes(s) ==
    LET f == Fragments(s, {"|"}, 1, Len(s))
    IN  IF f.cut THEN <<f.head>> \o f.mid \o <<f.tail>> ELSE <<f.head>>

\* [cell.strip() for cell in line.strip('|').split('|')]
Cells(line) ==
    LET cells == split_pipes(StripPipes(line))
    IN  [i \in 1..Len(cells) |-> strip(cells[i])]

\* the cells of a row, each between the tags of its kind
RECURSIVE CellsHtml(_, _, _)
CellsHtml(cells, open, close) ==
    IF cells = <<>> THEN <<>>
    ELSE open \o Head(cells) \o close \o CellsHtml(Tail(cells), open, close)

\* for line in lines[2:]: a row for every line that is not blank
RECURSIVE RowsHtml(_)
RowsHtml(lines) ==
    IF lines = <<>> THEN <<>>
    ELSE (IF strip(Head(lines)) # <<>>
          THEN TrOpen \o CellsHtml(Cells(Head(lines)), TdOpen, TdClose) \o TrClose
          ELSE <<>>)
         \o RowsHtml(Tail(lines))

_parse_table(lines) ==
    TableOpen
    \o TheadOpen \o CellsHtml(Cells(lines[1]), ThOpen, ThClose) \o TheadClose
    \o TbodyOpen \o RowsHtml(SubSeq(lines, 3, Len(lines))) \o TbodyClose
    \o TableClose

\* the body of the loop of _convert_tables on a line
TablesLine(result_, in_table, table_lines, line) ==
    IF HasPipe(line) /\ ~in_table
    THEN [result |-> result_, in_table |-> TRUE, table_lines |-> <<line>>]
    ELSE IF HasPipe(line) /\ in_table
    THEN [result |-> result_, in_table |-> TRUE,
          table_lines |-> Append(table_lines, line)]
    ELSE IF in_table /\ ~HasPipe(line)
    THEN [result |-> Append(IF Len(table_lines) >= 3
                            THEN Append(result_, _parse_table(table_lines))
                            ELSE result_ \o table_lines,
                            line),
          in_table |-> FALSE, table_lines |-> <<>>]
    ELSE [result |-> Append(result_, line), in_table |-> in_table,
          table_lines |-> table_lines]

MaxTableLines == 4

TableLines == {HeaderRow, SeparatorRow, BodyRow, TextLine, <<>>}

InitTables == InitConvert("_convert_tables", Texts(TableLines, MaxTableLines))

\* lines = text.split('\n'); result = []; in_table = False; table_lines = []
ConvertTables ==
    /\ pc = "start"
    /\ invoked.method = "_convert_tables"
    /\ pc' = "lines"
    /\ invoked' = [invoked EXCEPT !.lines = split_lines(invoked.text)]
    /\ UNCHANGED <<Generating, random, gen>>

\* for line in lines: the next line
ConvertTablesLine ==
    /\ pc = "lines"
    /\ invoked.method = "_convert_tables"
    /\ invoked.line < Len(invoked.lines)
    /\ \E step \in {TablesLine(invoked.result, invoked.in_table, invoked.table_lines,
                               invoked.lines[invoked.line + 1])} :
           invoked' = [invoked EXCEPT !.line = @ + 1,
                                      !.result = step.result,
                                      !.in_table = step.in_table,
                                      !.table_lines = step.table_lines]
    /\ UNCHANGED <<pc, Generating, random, gen>>

\* after the loop: a table of at least 3 lines that ends the text is
\* appended; return '\n'.join(result)
ConvertTablesReturn ==
    /\ pc = "lines"
    /\ invoked.method = "_convert_tables"
    /\ invoked.line = Len(invoked.lines)
    /\ pc' = "done"
    /\ \E ended \in {IF invoked.table_lines # <<>> /\ Len(invoked.table_lines) >= 3
                     THEN Append(invoked.result, _parse_table(invoked.table_lines))
                     ELSE invoked.result} :
           invoked' = [invoked EXCEPT !.result = ended,
                                      !.returned = JoinLines(ended)]
    /\ UNCHANGED <<Generating, random, gen>>

NextTables ==
    \/ ConvertTables
    \/ ConvertTablesLine
    \/ ConvertTablesReturn

SpecTables == InitTables /\ [][NextTables]_vars

\* the number of lines with '|' at the head of lines
RECURSIVE RunLength(_)
RunLength(lines) ==
    IF lines = <<>> \/ ~HasPipe(Head(lines)) THEN 0
    ELSE 1 + RunLength(Tail(lines))

\* the lines with every maximal run of at least 3 lines with '|' replaced
\* by its table, every other line kept
RECURSIVE TablesReplaced(_)
TablesReplaced(lines) ==
    IF lines = <<>> THEN <<>>
    ELSE IF ~HasPipe(Head(lines)) THEN <<Head(lines)>> \o TablesReplaced(Tail(lines))
    ELSE LET n == RunLength(lines)
         IN  (IF n >= 3 THEN <<_parse_table(SubSeq(lines, 1, n))>>
              ELSE SubSeq(lines, 1, n))
             \o TablesReplaced(SubSeq(lines, n + 1, Len(lines)))

(***************************************************************************)
(* C30 as stated: _convert_tables loses no input: its output is the lines  *)
(* of the text in their order, each maximal run of lines with '|' replaced *)
(* by one HTML table when it has at least 3 lines and copied unchanged     *)
(* when it has fewer, also when the run ends the text.                     *)
(***************************************************************************)
TablesLoseNoInput ==
    pc = "done" /\ invoked.method = "_convert_tables" =>
        invoked.returned = JoinLines(TablesReplaced(invoked.lines))

====
